---- MODULE Spec2Model ----
(***************************************************************************)
(* A model of tinybvh (tiny_bvh.h): the binned-SAH builders, the spatial   *)
(* split builder, refitting, layout conversion, ray traversal and the      *)
(* ownership of the buffers behind a tree.                                 *)
(*                                                                         *)
(* Numbers.  A float coordinate is modelled as a fixed-point integer with  *)
(* Unit steps per world unit; the triangles of the input lie on whole      *)
(* world units, clipped vertices fall on fixed-point steps.  BVH_FAR       *)
(* (1e30f in the source) is an integer above every finite magnitude the    *)
(* model can produce.  A SAH cost is kept as a record: "init" is the       *)
(* literal BVH_FAR a search starts from, "far" is a cost that contains a   *)
(* BVH_FAR term (a side of the split is empty) and "fin" carries the sum   *)
(* ANL + ANR; C = C_TRAV + rSAV * C_INT * s is compared through s because  *)
(* every candidate of a node shares rSAV.                                  *)
(***************************************************************************)
EXTENDS Integers, Sequences, FiniteSets, TLC

BVHBINS == 8
C_INT == 1
C_TRAV == 1
BVH_FAR == 1000000
Unit == 100

Axes == 1..3

tinybvh_clamp(x, a, b) == IF x < a THEN a ELSE IF x > b THEN b ELSE x

VMin(u, v) ==
    LET Min2(a, b) == IF a < b THEN a ELSE b
    IN  <<Min2(u[1], v[1]), Min2(u[2], v[2]), Min2(u[3], v[3])>>
VMax(u, v) ==
    LET Max2(a, b) == IF a > b THEN a ELSE b
    IN  <<Max2(u[1], v[1]), Max2(u[2], v[2]), Max2(u[3], v[3])>>
VSub(u, v) == <<u[1] - v[1], u[2] - v[2], u[3] - v[3]>>
VAll(x) == <<x, x, x>>

SetMin(S) == CHOOSE x \in S : \A y \in S : x <= y
SetMax(S) == CHOOSE x \in S : \A y \in S : x >= y

\* bvhvec3::halfArea
halfArea(e) == IF e[1] < -BVH_FAR THEN 0 ELSE e[1] * e[2] + e[2] * e[3] + e[3] * e[1]

\* BVHBase::SA
SA(aabbMin, aabbMax) == halfArea(VSub(aabbMax, aabbMin))

ZeroNode == [aabbMin |-> VAll(0), aabbMax |-> VAll(0), leftFirst |-> 0, triCount |-> 0]

isLeaf(node) == node.triCount > 0

\* bounds of a triangle, as the builders initialise a fragment
TriMin(tri) == VMin(tri[1], VMin(tri[2], tri[3]))
TriMax(tri) == VMax(tri[1], VMax(tri[2], tri[3]))

(***************************************************************************)
(* Binned SAH object split, shared by BVH::Build and BVH::BuildHQ.         *)
(***************************************************************************)
Triangle(vertices, i) == <<vertices[3 * i], vertices[3 * i + 1], vertices[3 * i + 2]>>

\* index positions of a leaf's slice of triIdx
NodePos(node) == node.leftFirst .. (node.leftFirst + node.triCount - 1)

\* minDim = (root.aabbMax - root.aabbMin) * 1e-20f (Build) or 1e-7f (BuildHQ):
\* both fall below one fixed-point step for the extents of the model
MinDim(root) ==
    LET e == VSub(root.aabbMax, root.aabbMin)
    IN  <<e[1] \div 10000000, e[2] \div 10000000, e[3] \div 10000000>>

\* bin of a fragment's centroid: (int)(((bmin + bmax) * 0.5f - nmin) * rpd),
\* clamped; on an axis of zero extent the bin is never used for a split
CentroidBin(f, a, node) ==
    LET ext == node.aabbMax[a] - node.aabbMin[a]
    IN  IF ext = 0 THEN 0
        ELSE tinybvh_clamp(((f.bmin[a] + f.bmax[a] - 2 * node.aabbMin[a]) * BVHBINS)
                              \div (2 * ext), 0, BVHBINS - 1)

\* union of the bounds of the fragments at a set of index positions
BoundsMin(P, triIdx, fragment) ==
    LET m(a) == SetMin({fragment[triIdx[p]].bmin[a] : p \in P} \cup {BVH_FAR})
    IN  <<m(1), m(2), m(3)>>
\* a union that takes the upper corner from the lower corners of the fragments
BoundsMaxOfMins(P, triIdx, fragment) ==
    LET m(a) == SetMax({fragment[triIdx[p]].bmin[a] : p \in P} \cup {-BVH_FAR})
    IN  <<m(1), m(2), m(3)>>
BoundsMax(P, triIdx, fragment) ==
    LET m(a) == SetMax({fragment[triIdx[p]].bmax[a] : p \in P} \cup {-BVH_FAR})
    IN  <<m(1), m(2), m(3)>>

\* splitCost >= noSplitCost, noSplitCost = triCount * C_INT
NotWorthSplitting(cur, n, area) ==
    cur.k # "fin" \/ C_TRAV * area + C_INT * cur.s >= n * C_INT * area

NoSplit ==
    LET InitCost == [k |-> "init", s |-> 0]
    IN  [cost |-> InitCost, axis |-> 1, pos |-> 0, rank |-> 0, spatial |-> FALSE, LMin |-> VAll(0), LMax |-> VAll(0),
         RMin |-> VAll(0), RMax |-> VAll(0), NL |-> 0, NR |-> 0]

BestOf(cands0, start0, area0) ==
    LET \* C < splitCost for C = C_TRAV + rSAV * C_INT * (ANL + ANR)
        CostLess(c, cur, area) ==
            IF area <= 0 THEN FALSE
            ELSE IF c.k = "fin" THEN cur.k # "fin" \/ c.s < cur.s
            ELSE cur.k = "init" /\ area > Unit * Unit
        \* the loops over a and i of a split search.  The source visits axis 0..2
        \* and plane 0..6 in order and replaces the best split only by a strictly
        \* cheaper one, so the split it ends with is the first of the cheapest
        \* candidates that beat the split the search starts from, or that split when
        \* none does
        VisitedBefore(c, d) == c.axis < d.axis \/ (c.axis = d.axis /\ c.rank < d.rank)
        Wins(c, cands, start, area) ==
            /\ CostLess(c.cost, start.cost, area)
            /\ \A d \in cands \ {c} :
                  IF VisitedBefore(d, c) THEN CostLess(c.cost, d.cost, area)
                  ELSE ~CostLess(d.cost, c.cost, area)
    IN  IF \E c \in cands0 : Wins(c, cands0, start0, area0)
        THEN CHOOSE c \in cands0 : Wins(c, cands0, start0, area0)
        ELSE start0

\* the axes a split search visits: those of an extent above minDim
SplitAxes(node, minDim) == {a \in Axes : node.aabbMax[a] - node.aabbMin[a] > minDim[a]}

FindObjectSplit(node0, triIdx0, fragment0, minDim) ==
    LET \* a candidate split: the positions L go left, the positions R go right;
        \* rank is the place of plane i in the order the search visits the planes
        Candidate(a, i, L, R, triIdx, fragment) ==
            [cost |-> IF L = {} \/ R = {} THEN [k |-> "far", s |-> 0]
                      ELSE [k |-> "fin",
                            s |-> halfArea(VSub(BoundsMax(L, triIdx, fragment), BoundsMin(L, triIdx, fragment)))
                                     * Cardinality(L)
                                  + halfArea(VSub(BoundsMax(R, triIdx, fragment), BoundsMin(R, triIdx, fragment)))
                                     * Cardinality(R)],
             axis |-> a, pos |-> i, rank |-> i, spatial |-> FALSE,
             LMin |-> BoundsMin(L, triIdx, fragment), LMax |-> BoundsMax(L, triIdx, fragment),
             RMin |-> BoundsMin(R, triIdx, fragment), RMax |-> BoundsMax(R, triIdx, fragment),
             NL |-> Cardinality(L), NR |-> Cardinality(R)]
        \* the candidate object split of a node at plane i of axis a
        ObjectCandidate(a, i, node, triIdx, fragment) ==
            Candidate(a, i,
                      {p \in NodePos(node) : CentroidBin(fragment[triIdx[p]], a, node) <= i},
                      {p \in NodePos(node) : CentroidBin(fragment[triIdx[p]], a, node) > i},
                      triIdx, fragment)
    IN  BestOf({ObjectCandidate(a, i, node0, triIdx0, fragment0) :
                   a \in SplitAxes(node0, minDim), i \in 0 .. BVHBINS - 2},
               NoSplit, SA(node0.aabbMin, node0.aabbMax))

\* a builder that leaves two nodes unused
FirstNewNodeLate == 2 + 1
\* the first node a builder hands out: node 1 is left unused, so that the
\* two children of a node share a cache line
FirstNewNode == 2

\* a split that forgets the primitive count of the left child
MakeChildrenLeftEmpty(bvhNode, nodeIdx, lci, left, right) ==
    [bvhNode EXCEPT ![lci] = [left EXCEPT !.triCount = 0], ![lci + 1] = right,
                    ![nodeIdx] = [@ EXCEPT !.leftFirst = lci, !.triCount = 0]]
\* the two children of a split node, stored side by side at lci and lci + 1;
\* the split node becomes interior
MakeChildren(bvhNode, nodeIdx, lci, left, right) ==
    [bvhNode EXCEPT ![lci] = left, ![lci + 1] = right,
                    ![nodeIdx] = [@ EXCEPT !.leftFirst = lci, !.triCount = 0]]

\* a partition that overwrites the index at src instead of swapping it
RECURSIVE PartitionOverwriting(_, _, _, _, _, _)
PartitionOverwriting(i, src, j, triIdx, n, left) ==
    IF i = n THEN [src |-> src, j |-> j, triIdx |-> triIdx]
    ELSE IF triIdx[src] \in left
         THEN PartitionOverwriting(i + 1, src + 1, j, triIdx, n, left)
         ELSE PartitionOverwriting(i + 1, src, j - 1, [triIdx EXCEPT ![src] = triIdx[j - 1]], n, left)

\* in-place partition of Build: i counts the fragments of the node, left
\* holds the fragments the test of the builder sends to the left
RECURSIVE Partition(_, _, _, _, _, _)
Partition(i, src, j, triIdx, n, left) ==
    IF i = n THEN [src |-> src, j |-> j, triIdx |-> triIdx]
    ELSE IF triIdx[src] \in left
         THEN Partition(i + 1, src + 1, j, triIdx, n, left)
         ELSE Partition(i + 1, src, j - 1,
                        [triIdx EXCEPT ![src] = triIdx[j - 1], ![j - 1] = triIdx[src]], n, left)

\* the fragments of a node
NodeFrags(node, triIdx) == {triIdx[p] : p \in NodePos(node)}

\* the next subdivision task of a builder's stack, for the loop named by
\* the state s; a state holds bvhNode, triIdx, fragment, newNodePtr, the
\* task stack, nodeIdx and minDim
PopTask(s) == [s EXCEPT !.nodeIdx = s.task[Len(s.task)], !.task = SubSeq(s.task, 1, Len(s.task) - 1)]

\* the state after a split: the children made, the right one pushed, the
\* left one next
Descend(s, part, left, right) ==
    [s EXCEPT !.triIdx = part.triIdx,
              !.bvhNode = MakeChildren(s.bvhNode, s.nodeIdx, s.newNodePtr, left, right),
              !.newNodePtr = s.newNodePtr + 2,
              !.task = Append(s.task, s.newNodePtr + 1),
              !.nodeIdx = s.newNodePtr]

\* the two nested while(1) loops of Build: Subdivide searches the split of
\* node nodeIdx, SplitNode ends the inner loop when not splitting is better
\* and partitions otherwise, CreateChildren ends it when a side is empty

(***************************************************************************)
(* Memory.  A buffer is an array indexed from 0; a pointer is the number   *)
(* of a buffer, 0 is the null pointer.  heap.buf keeps the content of      *)
(* every buffer ever allocated, heap.live the buffers not yet freed,       *)
(* heap.by who allocated each and heap.frees every call of free.           *)
(***************************************************************************)
UninitNode == [aabbMin |-> "uninit", aabbMax |-> "uninit", leftFirst |-> "uninit", triCount |-> "uninit"]
UninitFrag == [bmin |-> "uninit", bmax |-> "uninit", primIdx |-> "uninit", clipped |-> "uninit"]

EmptyHeap == [buf |-> <<>>, by |-> <<>>, live |-> {}, frees |-> <<>>]

\* a new buffer holding the array arr
AllocArray(h, who, arr) ==
    [h EXCEPT !.buf = Append(@, arr), !.by = Append(@, who), !.live = @ \cup {Len(h.buf) + 1}]

\* BVHBase::AlignedAlloc: count elements, each holding the value fill
AlignedAlloc(h, who, count, fill) == AllocArray(h, who, [i \in 0 .. count - 1 |-> fill])
LastAlloc(h) == Len(h.buf)

\* BVHBase::AlignedFree; free( 0 ) does nothing
AlignedFree(h, who, ptr) ==
    IF ptr = 0 THEN h
    ELSE [h EXCEPT !.live = @ \ {ptr}, !.frees = Append(@, [by |-> who, ptr |-> ptr])]

\* a BVH after its constructor
NewBVH ==
    LET NullSlice == [data |-> 0, count |-> 0]
    IN  [bvhNode |-> 0, triIdx |-> 0, fragment |-> 0, verts |-> NullSlice,
         rebuildable |-> TRUE, refittable |-> TRUE, frag_min_flipped |-> FALSE,
         may_have_holes |-> FALSE, bvh_over_aabbs |-> FALSE,
         allocatedNodes |-> 0, usedNodes |-> 0, triCount |-> 0, idxCount |-> 0]

\* the allocation branch at the head of Build, BuildQuick and BuildAVX
ResetNodePool(t, h, who, primCount) ==
    LET h1 == AlignedFree(AlignedFree(AlignedFree(h, who, t.bvhNode), who, t.triIdx), who, t.fragment)
        h2 == AlignedAlloc(h1, who, 2 * primCount, UninitNode)
        h3 == [h2 EXCEPT !.buf[LastAlloc(h2)][1] = ZeroNode]
        h4 == AlignedAlloc(h3, who, primCount, "uninit")
        h5 == AlignedAlloc(h4, who, primCount, UninitFrag)
    IN  [t |-> [t EXCEPT !.bvhNode = LastAlloc(h2), !.triIdx = LastAlloc(h4),
                         !.fragment = LastAlloc(h5), !.allocatedNodes = 2 * primCount],
         h |-> h5]

\* fragments and root bounds from the triangles (Build 1256-1266)
RECURSIVE InitFragments(_, _, _, _)
InitFragments(i, s, vertices, triCount) ==
    IF i = triCount THEN [s EXCEPT !.minDim = MinDim(s.bvhNode[0])]
    ELSE LET tri == Triangle(vertices, i)
             root == s.bvhNode[0]
         IN  InitFragments(i + 1,
                 [s EXCEPT !.fragment[i] = [@ EXCEPT !.bmin = TriMin(tri), !.bmax = TriMax(tri)],
                           !.triIdx[i] = i,
                           !.bvhNode[0] = [root EXCEPT !.aabbMin = VMin(root.aabbMin, TriMin(tri)),
                                                       !.aabbMax = VMax(root.aabbMax, TriMax(tri))]],
                 vertices, triCount)

\* the state a builder starts its loops in: all triangles in the root
RootState(r, primCount) ==
    [bvhNode |-> [r.h.buf[r.t.bvhNode] EXCEPT ![0] =
                     [aabbMin |-> VAll(BVH_FAR), aabbMax |-> VAll(-BVH_FAR),
                      leftFirst |-> 0, triCount |-> primCount]],
     triIdx |-> r.h.buf[r.t.triIdx], fragment |-> r.h.buf[r.t.fragment],
     newNodePtr |-> FirstNewNode, task |-> <<>>, nodeIdx |-> 0, minDim |-> VAll(0)]

\* the end of a builder: the buffers hold what the loops left in state s,
\* the tree gets its counters and flags
StoreTree(r, s, vertices, primCount, flipped, overAabbs) ==
    [t |-> [r.t EXCEPT !.verts = vertices, !.triCount = primCount, !.idxCount = primCount,
                       !.refittable = TRUE, !.frag_min_flipped = flipped,
                       !.may_have_holes = FALSE, !.bvh_over_aabbs = overAabbs,
                       !.usedNodes = s.newNodePtr],
     h |-> [r.h EXCEPT !.buf[r.t.bvhNode] = s.bvhNode, !.buf[r.t.triIdx] = s.triIdx,
                       !.buf[r.t.fragment] = s.fragment]]

BuildBody(t, h0, who, vertices0) ==
    LET RECURSIVE Subdivide(_)
        CreateChildren(s, node, best, part) ==
            IF part.src = node.leftFirst \/ part.src = node.leftFirst + node.triCount
            THEN IF s.task = <<>> THEN [s EXCEPT !.triIdx = part.triIdx]
                 ELSE Subdivide(PopTask([s EXCEPT !.triIdx = part.triIdx]))
            ELSE Subdivide(Descend(s, part,
                     [aabbMin |-> best.LMin, aabbMax |-> best.LMax,
                      leftFirst |-> node.leftFirst, triCount |-> part.src - node.leftFirst],
                     [aabbMin |-> best.RMin, aabbMax |-> best.RMax,
                      leftFirst |-> part.j, triCount |-> node.triCount - (part.src - node.leftFirst)]))
        SplitNode(s, node, best) ==
            IF NotWorthSplitting(best.cost, node.triCount, SA(node.aabbMin, node.aabbMax))
            THEN IF s.task = <<>> THEN s ELSE Subdivide(PopTask(s))
            ELSE CreateChildren(s, node, best,
                     Partition(0, node.leftFirst, node.leftFirst + node.triCount, s.triIdx, node.triCount,
                               {fi \in NodeFrags(node, s.triIdx) :
                                   CentroidBin(s.fragment[fi], best.axis, node) <= best.pos}))
        Subdivide(s) ==
            SplitNode(s, s.bvhNode[s.nodeIdx],
                      FindObjectSplit(s.bvhNode[s.nodeIdx], s.triIdx, s.fragment, s.minDim))
        \* BVH::Build( const bvhvec4slice& vertices ) past its fatal checks: the
        \* allocation branch, then BuildIn on the buffers r
        BuildIn(r, vertices, primCount) ==
            StoreTree(r, Subdivide(InitFragments(0, RootState(r, primCount), r.h.buf[vertices.data], primCount)),
                      vertices, primCount, FALSE, vertices.data = 0)
        \* the allocation branch of a build over boxes (vertices == 0): the
        \* fragment array is freed with the node pool and the index array, none is
        \* allocated, and fragment keeps pointing at the freed one
        ResetAabbs(primCount) ==
            LET h1 == AlignedFree(AlignedFree(AlignedFree(h0, who, t.bvhNode), who, t.triIdx), who, t.fragment)
                h2 == AlignedAlloc(h1, who, 2 * primCount, UninitNode)
                h3 == [h2 EXCEPT !.buf[LastAlloc(h2)][1] = ZeroNode]
                h4 == AlignedAlloc(h3, who, primCount, "uninit")
            IN  [t |-> [t EXCEPT !.bvhNode = LastAlloc(h2), !.triIdx = LastAlloc(h4),
                                 !.allocatedNodes = 2 * primCount],
                 h |-> h4]
        \* root bounds from the boxes the fragment array holds (Build 1268-1276)
        InitAabbs(s, triCount) ==
            [s EXCEPT !.triIdx = [i \in DOMAIN @ |-> IF i < triCount THEN i ELSE @[i]] @@ <<>>,
                      !.bvhNode[0] =
                          [@ EXCEPT !.aabbMin = VMin(@, BoundsMin(0 .. triCount - 1, [i \in 0 .. triCount - 1 |-> i],
                                                                  s.fragment)),
                                    !.aabbMax = VMax(@, BoundsMax(0 .. triCount - 1, [i \in 0 .. triCount - 1 |-> i],
                                                                  s.fragment))]]
        WithMinDim(s) == [s EXCEPT !.minDim = MinDim(s.bvhNode[0])]
        BuildAabbsIn(r, vertices, primCount) ==
            StoreTree(r, Subdivide(WithMinDim(InitAabbs(RootState(r, primCount), primCount))),
                      vertices, primCount, FALSE, vertices.data = 0)
    IN  IF vertices0.data = 0
        THEN BuildAabbsIn(IF t.allocatedNodes < 2 * (vertices0.count \div 3)
                          THEN ResetAabbs(vertices0.count \div 3) ELSE [t |-> t, h |-> h0],
                          vertices0, vertices0.count \div 3)
        ELSE BuildIn(IF t.allocatedNodes < 2 * (vertices0.count \div 3)
                     THEN ResetNodePool(t, h0, who, vertices0.count \div 3) ELSE [t |-> t, h |-> h0],
                     vertices0, vertices0.count \div 3)

BuildQuickBody(t0, h0, who, vertices0) ==
    LET \* the two nested while(1) loops of BuildQuick: midpoint split on the
        \* longest axis
        LongestAxis(extent) ==
            IF extent[3] > extent[1] /\ extent[3] > extent[2] THEN 3
            ELSE IF extent[2] > extent[1] /\ extent[2] > extent[3] THEN 2 ELSE 1
        \* the fragments with centroid < splitPos, both sides doubled
        LeftOfMidpoint(node, axis, triIdx, fragment) ==
            {fi \in NodeFrags(node, triIdx) :
                fragment[fi].bmin[axis] + fragment[fi].bmax[axis] < node.aabbMin[axis] + node.aabbMax[axis]}
        \* a child of BuildQuick over the positions from first, with the bounds of
        \* its fragments
        QuickChild(first, count, triIdx, fragment) ==
            [aabbMin |-> BoundsMin(first .. first + count - 1, triIdx, fragment),
             aabbMax |-> BoundsMax(first .. first + count - 1, triIdx, fragment),
             leftFirst |-> first, triCount |-> count]
        \* componentwise minimum and maximum of a set of points, from the
        \* ( BVH_FAR ) and ( -BVH_FAR ) the root starts with
        SetBoundsMin(S) == <<SetMin({v[1] : v \in S} \cup {BVH_FAR}), SetMin({v[2] : v \in S} \cup {BVH_FAR}),
                             SetMin({v[3] : v \in S} \cup {BVH_FAR})>>
        SetBoundsMax(S) == <<SetMax({v[1] : v \in S} \cup {-BVH_FAR}), SetMax({v[2] : v \in S} \cup {-BVH_FAR}),
                             SetMax({v[3] : v \in S} \cup {-BVH_FAR})>>
        \* the loop over the triangles ahead of the subdivision: fragments, root
        \* bounds and the identity in triIdx
        InitQuick(s, vertices, triCount) ==
            [s EXCEPT !.fragment = [i \in DOMAIN @ |->
                                       IF i < triCount
                                       THEN [@[i] EXCEPT !.bmin = TriMin(Triangle(vertices, i)),
                                                         !.bmax = TriMax(Triangle(vertices, i))]
                                       ELSE @[i]] @@ <<>>,
                      !.triIdx = [i \in DOMAIN @ |-> IF i < triCount THEN i ELSE @[i]] @@ <<>>,
                      !.bvhNode[0] =
                          [@ EXCEPT !.aabbMin = SetBoundsMin({TriMin(Triangle(vertices, i)) : i \in 0 .. triCount - 1}),
                                    !.aabbMax = SetBoundsMax({TriMax(Triangle(vertices, i)) : i \in 0 .. triCount - 1})]]
        \* one pass of the loop over the fragments of a node: the fragment at src
        \* stays, or is swapped with the one at --j
        PartitionStep(p, left) ==
            IF p.triIdx[p.src] \in left THEN [p EXCEPT !.i = @ + 1, !.src = @ + 1]
            ELSE [p EXCEPT !.i = @ + 1, !.j = @ - 1,
                           !.triIdx = [@ EXCEPT ![p.src] = p.triIdx[p.j - 1], ![p.j - 1] = p.triIdx[p.src]]]
        \* up to 2^k passes of that loop, and the loop to its end
        RECURSIVE PartitionPasses(_, _, _, _)
        PartitionPasses(p, n, left, k) ==
            IF p.i >= n THEN p
            ELSE IF k = 0 THEN PartitionStep(p, left)
            ELSE PartitionPasses(PartitionPasses(p, n, left, k - 1), n, left, k - 1)
        RECURSIVE PartitionQuick(_, _, _, _)
        PartitionQuick(p, n, left, k) ==
            IF p.i >= n THEN [src |-> p.src, j |-> p.j, triIdx |-> p.triIdx]
            ELSE PartitionQuick(PartitionPasses(p, n, left, k), n, left, k + 1)
        \* the end of one pass of the inner while(1): no children and the next
        \* task when a side is empty (the outer loop ends when there is none),
        \* else two children, the right one pushed and the left one next
        CreateChildrenQuick(s, node, part) ==
            IF part.src = node.leftFirst \/ part.src = node.leftFirst + node.triCount
            THEN IF s.task = <<>> THEN [s EXCEPT !.triIdx = part.triIdx, !.done = TRUE]
                 ELSE PopTask([s EXCEPT !.triIdx = part.triIdx])
            ELSE Descend(s, part,
                     QuickChild(node.leftFirst, part.src - node.leftFirst, part.triIdx, s.fragment),
                     QuickChild(part.j, node.triCount - (part.src - node.leftFirst), part.triIdx, s.fragment))
        SplitNodeQuick(s, node) ==
            CreateChildrenQuick(s, node,
                PartitionQuick([i |-> 0, src |-> node.leftFirst, j |-> node.leftFirst + node.triCount,
                                triIdx |-> s.triIdx], node.triCount,
                               LeftOfMidpoint(node, LongestAxis(VSub(node.aabbMax, node.aabbMin)),
                                              s.triIdx, s.fragment), 0))
        \* up to 2^k passes of the inner while(1), and the two loops to their end
        RECURSIVE SubdividePasses(_, _)
        SubdividePasses(s, k) ==
            IF s.done THEN s
            ELSE IF k = 0 THEN SplitNodeQuick(s, s.bvhNode[s.nodeIdx])
            ELSE SubdividePasses(SubdividePasses(s, k - 1), k - 1)
        RECURSIVE SubdivideQuick(_, _)
        SubdivideQuick(s, k) == IF s.done THEN s ELSE SubdivideQuick(SubdividePasses(s, k), k + 1)
        \* BVH::BuildQuick( const bvhvec4slice& vertices ) past its fatal checks
        BuildQuickIn(r, vertices, primCount) ==
            StoreTree(r, SubdivideQuick(InitQuick(RootState(r, primCount) @@ [done |-> FALSE],
                                                  r.h.buf[vertices.data], primCount), 0),
                      vertices, primCount, FALSE, r.t.bvh_over_aabbs)
    IN  BuildQuickIn(IF t0.allocatedNodes < 2 * (vertices0.count \div 3)
                     THEN ResetNodePool(t0, h0, who, vertices0.count \div 3) ELSE [t |-> t0, h |-> h0],
                     vertices0, vertices0.count \div 3)

\* leaf bounds that leave out the third vertex of each triangle
LeafBoundsMaxOfTwo(node, triIdx, vertices) ==
    LET m(a) == SetMax({vertices[3 * triIdx[p] + k][a] : p \in NodePos(node), k \in 0 .. 1}
                          \cup {-BVH_FAR})
    IN  <<m(1), m(2), m(3)>>
LeafBoundsMax(node, triIdx, vertices) ==
    LET m(a) == SetMax({vertices[3 * triIdx[p] + k][a] : p \in NodePos(node), k \in 0 .. 2}
                          \cup {-BVH_FAR})
    IN  <<m(1), m(2), m(3)>>

\* a sweep of Refit from node 0 upwards
RefitIndexUpwards(k, usedNodes) == k
\* for (int32_t i = usedNodes - 1; i >= 0; i--): the node of step k = 0, 1, ...
\* of the loop of BVH::Refit
RefitIndex(k, usedNodes) == usedNodes - 1 - k

\* BVH::Refit past its fatal checks
RefitBody(t, h) ==
    LET \* bounds of the triangles a leaf refers to, read from the vertex array
        LeafBoundsMin(node, triIdx, vertices) ==
            LET m(a) == SetMin({vertices[3 * triIdx[p] + k][a] : p \in NodePos(node), k \in 0 .. 2}
                                  \cup {BVH_FAR})
            IN  <<m(1), m(2), m(3)>>
        RECURSIVE RefitFrom(_, _, _, _)
        RefitFrom(k, bvhNode, triIdx, vertices) ==
            IF k >= t.usedNodes THEN bvhNode
            ELSE LET i == RefitIndex(k, t.usedNodes)
                     node == bvhNode[i]
                     left == bvhNode[node.leftFirst]
                     right == bvhNode[node.leftFirst + 1]
                 IN  RefitFrom(k + 1,
                         [bvhNode EXCEPT ![i] =
                             IF isLeaf(node)
                             THEN [node EXCEPT !.aabbMin = LeafBoundsMin(node, triIdx, vertices),
                                               !.aabbMax = LeafBoundsMax(node, triIdx, vertices)]
                             ELSE [node EXCEPT !.aabbMin = VMin(left.aabbMin, right.aabbMin),
                                               !.aabbMax = VMax(left.aabbMax, right.aabbMax)]],
                         triIdx, vertices)
        \* verts of a tree over boxes is the null slice: the loop reads the vertices
        \* of a leaf at the addresses from 0 on, where the model has zeroes (the
        \* fault such a read can end in is an outcome of the action)
        NullPage == [i \in 0 .. 3 * Cardinality(DOMAIN h.buf[t.triIdx]) - 1 |-> <<0, 0, 0>>] @@ <<>>
    IN  [h EXCEPT !.buf[t.bvhNode] =
            RefitFrom(0, h.buf[t.bvhNode], h.buf[t.triIdx],
                      IF t.verts.data = 0 THEN NullPage ELSE h.buf[t.verts.data])]

(***************************************************************************)
(* BVH::BuildHQ: object splits as in Build, spatial splits over clipped    *)
(* fragments.                                                              *)
(***************************************************************************)

\* a slice of the right child that starts past its first reference
SliceAboveB(A, B) == B + 1
\* (A + B) >> 1: where the slice of the left child ends and the slice of the
\* right child starts
SliceMiddle(A, B) == (A + B) \div 2
\* a spatial split that ignores the room its slice has
FitsAnyBudget(c, budget) == TRUE
\* NL[i] + NR[i] < budget: the references a spatial split writes fit the slice
FitsBudget(c, budget) == c.NL + c.NR < budget

\* BVH::BuildHQ( const bvhvec4slice& vertices ): the tree, the heap, the index
\* array before its last loop (refs), nextFrag and the partitions made
\* (slices), and whether a fragment was written past the end of its array (oob)
BuildHQBody(t0, h0, who0, vertices0) ==
    LET \* division rounding towards minus infinity, for either sign of the divisor
        FloorDiv(n, d) == IF d > 0 THEN n \div d ELSE (-n) \div (-d)
        IsIn(slot) == slot.in
        \* one loop of ClipFrag over the edges of the polygon: keep the part with
        \* v[a] >= x - eps (lo) or v[a] <= x + eps (~lo).  Edge e yields slot 2e-1,
        \* the intersection C when the edge crosses the plane, and slot 2e, its end
        \* point v1 when inside
        ClipPlane(poly, a, x, lo, eps) ==
            LET n == Len(poly)
                in(v) == IF lo THEN v[a] >= x - eps ELSE v[a] <= x + eps
                slot(i) ==
                    LET e == (i + 1) \div 2
                        v0 == poly[e].p
                        v1 == poly[(e % n) + 1].p
                        c(k) == IF k = a THEN x
                                ELSE v0[k] + FloorDiv((x - v0[a]) * (v1[k] - v0[k]), v1[a] - v0[a])
                    IN  IF i % 2 = 1
                        THEN IF in(v0) # in(v1) THEN [in |-> TRUE, p |-> <<c(1), c(2), c(3)>>]
                             ELSE [in |-> FALSE, p |-> v0]
                        ELSE [in |-> in(v1), p |-> v1]
            IN  SelectSeq([i \in 1 .. 2 * n |-> slot(i)], IsIn)
        \* both planes of axis a, skipped when the box is flat on that axis
        ClipAxis(poly, a, bmin, bmax, minDim) ==
            IF bmax[a] - bmin[a] > minDim[a]
            THEN ClipPlane(ClipPlane(poly, a, bmin[a], TRUE, minDim[a]), a, bmax[a], FALSE, minDim[a])
            ELSE poly
        \* the end of ClipFrag: the bounds of the clipped polygon vin, kept inside
        \* the box bmin..bmax
        ClipResult(orig, bmin, bmax, vin) ==
            LET mn(a) == SetMin({vin[i].p[a] : i \in 1 .. Len(vin)} \cup {BVH_FAR})
                mx(a) == SetMax({vin[i].p[a] : i \in 1 .. Len(vin)} \cup {-BVH_FAR})
            IN  [ok |-> Len(vin) > 0,
                 frag |-> [bmin |-> VMax(<<mn(1), mn(2), mn(3)>>, bmin),
                           bmax |-> VMin(<<mx(1), mx(2), mx(3)>>, bmax),
                           primIdx |-> orig.primIdx, clipped |-> 1]]
        \* the triangle as a polygon, clipped by the six planes of the box bmin..bmax
        ClipBox(tri, bmin, bmax, minDim) ==
            ClipAxis(ClipAxis(ClipAxis(<<[in |-> TRUE, p |-> tri[1]], [in |-> TRUE, p |-> tri[2]],
                                         [in |-> TRUE, p |-> tri[3]]>>,
                                       1, bmin, bmax, minDim), 2, bmin, bmax, minDim), 3, bmin, bmax, minDim)
        \* BVH::ClipFrag: the fragment written to newFrag and the value returned
        ClipFrag(orig, bmin0, bmax0, minDim, vertices) ==
            ClipResult(orig, VMax(bmin0, orig.bmin), VMin(bmax0, orig.bmax),
                       ClipBox(Triangle(vertices, orig.primIdx), VMax(bmin0, orig.bmin),
                               VMin(bmax0, orig.bmax), minDim))
        \* planeDist = extent / (BVHBINS * 0.9999f): plane j of the spatial bins of a
        \* node lies at nodeMin + planeDist * j
        PlaneAt(node, a, j) ==
            node.aabbMin[a] + ((node.aabbMax[a] - node.aabbMin[a]) * 10000 * j) \div (BVHBINS * 9999)
        \* (int)((x - nodeMin) * rPlaneDist), the spatial bin of coordinate x
        SpatialBin(x, node, a) ==
            ((x - node.aabbMin[a]) * BVHBINS * 9999) \div ((node.aabbMax[a] - node.aabbMin[a]) * 10000)
        \* the box fragments are clipped to for bin j of axis a
        BinBoxMin(node, a, j) == [node.aabbMin EXCEPT ![a] = PlaneAt(node, a, j)]
        BinBoxMax(node, a, j) ==
            [node.aabbMax EXCEPT ![a] = IF j = 6 THEN node.aabbMax[a] ELSE PlaneAt(node, a, j + 1)]
        \* the bins the spatial binning puts a fragment in, first and last
        Bin1(f, a, node) == tinybvh_clamp(SpatialBin(f.bmin[a], node, a), 0, BVHBINS - 1)
        Bin2(f, a, node) == tinybvh_clamp(SpatialBin(f.bmax[a], node, a), 0, BVHBINS - 1)
        \* what a fragment f adds to the spatial bins of axis a: its bounds when it
        \* fits one bin, else its clipped part per bin
        BinParts(f, a, node, minDim, vertices) ==
            IF Bin1(f, a, node) = Bin2(f, a, node)
            THEN {[bin |-> Bin1(f, a, node), bmin |-> f.bmin, bmax |-> f.bmax]}
            ELSE {[bin |-> c.bin, bmin |-> c.r.frag.bmin, bmax |-> c.r.frag.bmax] :
                     c \in {c \in {[bin |-> j, r |-> ClipFrag(f, BinBoxMin(node, a, j), BinBoxMax(node, a, j),
                                                              minDim, vertices)] :
                                      j \in Bin1(f, a, node) .. Bin2(f, a, node)} : c.r.ok}}
        PartsMin(parts) ==
            LET m(a) == SetMin({q.bmin[a] : q \in parts} \cup {BVH_FAR})
            IN  <<m(1), m(2), m(3)>>
        PartsMax(parts) ==
            LET m(a) == SetMax({q.bmax[a] : q \in parts} \cup {-BVH_FAR})
            IN  <<m(1), m(2), m(3)>>
        \* a candidate spatial split of axis a: lN fragments start left of the
        \* plane, rN end right of it, L and R are the bin contents of each side
        SpatialCandidate(a, i, lN, rN, L, R) ==
            [cost |-> IF lN = 0 \/ rN = 0 THEN [k |-> "far", s |-> 0]
                      ELSE [k |-> "fin", s |-> halfArea(VSub(PartsMax(L), PartsMin(L))) * lN
                                              + halfArea(VSub(PartsMax(R), PartsMin(R))) * rN],
             axis |-> a, pos |-> i, rank |-> i, spatial |-> TRUE,
             LMin |-> PartsMin(L), LMax |-> [PartsMax(L) EXCEPT ![a] = PartsMin(R)[a]],
             RMin |-> PartsMin(R), RMax |-> PartsMax(R), NL |-> lN, NR |-> rN]
        \* the seven candidate spatial splits of axis a over the binned parts
        SpatialCandidates(a, parts, node, triIdx, fragment) ==
            {SpatialCandidate(a, i,
                 Cardinality({p \in NodePos(node) : Bin1(fragment[triIdx[p]], a, node) <= i}),
                 Cardinality({p \in NodePos(node) : Bin2(fragment[triIdx[p]], a, node) > i}),
                 {q \in parts : q.bin <= i}, {q \in parts : q.bin > i}) : i \in 0 .. BVHBINS - 2}
        \* the search for a spatial split: it starts from the best object split and
        \* takes a candidate that is strictly cheaper and fits the budget; as for the
        \* object split, the first of the cheapest such candidates remains
        FindSpatialSplit(obj, budget, node, triIdx, fragment, minDim, vertices) ==
            BestOf({c \in UNION {SpatialCandidates(a,
                                     UNION {BinParts(fragment[triIdx[p]], a, node, minDim, vertices) :
                                               p \in NodePos(node)},
                                     node, triIdx, fragment) : a \in SplitAxes(node, minDim)} :
                       FitsBudget(c, budget)},
                   obj, SA(node.aabbMin, node.aabbMax))
        \* spatialOverlap > 1e-5f, for spatialUnion = bestLMax - bestRMin.  When a
        \* side of the best object split is empty a bound of it is +-BVH_FAR, the
        \* half area overflows to infinity and the test succeeds
        SpatialOverlap(obj, rootArea) ==
            IF obj.cost.k = "far" THEN TRUE
            ELSE halfArea(VSub(obj.LMax, obj.RMin)) > rootArea \div 100000
        \* the split of a straddling fragment: its right part becomes fragment
        \* nextFrag, its left part replaces it; q carries A, B, triIdxB, fragment,
        \* nextFrag and oob (a write past the end of the fragment array)
        PutRight(q, right) ==
            IF right.ok
            THEN [q EXCEPT !.fragment = IF q.nextFrag \in DOMAIN @
                                        THEN [@ EXCEPT ![q.nextFrag] = right.frag] ELSE @,
                           !.oob = @ \/ q.nextFrag \notin DOMAIN q.fragment,
                           !.triIdxB[q.B - 1] = q.nextFrag,
                           !.B = q.B - 1, !.nextFrag = q.nextFrag + 1]
            ELSE q
        PutLeft(q, fragIdx, left) ==
            IF left.ok THEN [q EXCEPT !.fragment[fragIdx] = left.frag, !.triIdxB[q.A] = fragIdx, !.A = q.A + 1]
            ELSE [q EXCEPT !.fragment[fragIdx] = left.frag]
        \* one fragment of the partition loop of a spatial split
        SpatialStep(q, fragIdx, f, node, best, minDim, vertices) ==
            IF SpatialBin(f.bmax[best.axis], node, best.axis) <= best.pos
            THEN [q EXCEPT !.triIdxB[q.A] = fragIdx, !.A = q.A + 1]
            ELSE IF SpatialBin(f.bmin[best.axis], node, best.axis) > best.pos
            THEN [q EXCEPT !.triIdxB[q.B - 1] = fragIdx, !.B = q.B - 1]
            ELSE PutLeft(PutRight(q, ClipFrag(f, VMax(best.RMin, node.aabbMin), VMin(best.RMax, node.aabbMax),
                                              minDim, vertices)),
                         fragIdx,
                         ClipFrag(f, VMax(best.LMin, node.aabbMin), VMin(best.LMax, node.aabbMax),
                                  minDim, vertices))
        \* one fragment of the partition loop of an object split of BuildHQ
        ObjectStep(q, fr, node, best) ==
            IF CentroidBin(q.fragment[fr], best.axis, node) <= best.pos
            THEN [q EXCEPT !.triIdxB[q.A] = fr, !.A = q.A + 1]
            ELSE [q EXCEPT !.triIdxB[q.B - 1] = fr, !.B = q.B - 1]
        \* the loop ends at a write past the end of the fragment array: what the
        \* program does from there on is undefined
        RECURSIVE PartitionHQ(_, _, _, _, _, _, _)
        PartitionHQ(i, q, node, best, triIdxA, minDim, vertices) ==
            IF i = node.triCount \/ q.oob THEN q
            ELSE PartitionHQ(i + 1,
                     IF best.spatial
                     THEN SpatialStep(q, triIdxA[node.leftFirst + i], q.fragment[triIdxA[node.leftFirst + i]],
                                      node, best, minDim, vertices)
                     ELSE ObjectStep(q, triIdxA[node.leftFirst + i], node, best),
                     node, best, triIdxA, minDim, vertices)
        \* memcpy( triIdxA + sliceStart, triIdxB + sliceStart, (sliceEnd - sliceStart) * 4 )
        CopySlice(triIdxA, triIdxB, sliceStart, sliceEnd) ==
            [i \in DOMAIN triIdxA |-> IF i >= sliceStart /\ i < sliceEnd THEN triIdxB[i] ELSE triIdxA[i]]
        \* the state of BuildHQ after the partition q and the copy back
        Parted(s, q) ==
            [s EXCEPT !.triIdx = CopySlice(s.triIdx, q.triIdxB, s.sliceStart, s.sliceEnd) @@ <<>>,
                      !.triIdxB = q.triIdxB, !.fragment = q.fragment,
                      !.nextFrag = q.nextFrag, !.oob = q.oob,
                      !.slices = Append(@, [sliceStart |-> s.sliceStart, sliceEnd |-> s.sliceEnd,
                                            A |-> q.A, B |-> q.B, children |-> <<>>])]
        \* the next subdivision task of the stack of BuildHQ
        PopTaskHQ(s) ==
            [s EXCEPT !.nodeIdx = s.task[Len(s.task)].node,
                      !.sliceStart = s.task[Len(s.task)].sliceStart,
                      !.sliceEnd = s.task[Len(s.task)].sliceEnd,
                      !.task = SubSeq(s.task, 1, Len(s.task) - 1)]
        \* the children of a split of BuildHQ; each gets half of the free slice
        DescendHQ(s, node, best, q) ==
            [Parted(s, q) EXCEPT
                !.bvhNode = MakeChildren(s.bvhNode, s.nodeIdx, s.newNodePtr,
                    [aabbMin |-> best.LMin, aabbMax |-> best.LMax,
                     leftFirst |-> s.sliceStart, triCount |-> q.A - s.sliceStart],
                    [aabbMin |-> best.RMin, aabbMax |-> best.RMax,
                     leftFirst |-> q.B, triCount |-> s.sliceEnd - q.B]),
                !.newNodePtr = s.newNodePtr + 2,
                !.task = Append(s.task, [node |-> s.newNodePtr + 1, sliceStart |-> SliceMiddle(q.A, q.B),
                                         sliceEnd |-> s.sliceEnd]),
                !.sliceEnd = SliceMiddle(q.A, q.B),
                !.nodeIdx = s.newNodePtr]
        \* the record of the last partition gets what the children were given: the
        \* left child is the node the loop goes on with, the right child the task
        \* pushed
        Emitted(d) ==
            [d EXCEPT !.slices[Len(d.slices)].children =
                <<[leftFirst |-> d.bvhNode[d.nodeIdx].leftFirst, triCount |-> d.bvhNode[d.nodeIdx].triCount,
                   sliceStart |-> d.sliceStart, sliceEnd |-> d.sliceEnd],
                  [leftFirst |-> d.bvhNode[d.task[Len(d.task)].node].leftFirst,
                   triCount |-> d.bvhNode[d.task[Len(d.task)].node].triCount,
                   sliceStart |-> d.task[Len(d.task)].sliceStart,
                   sliceEnd |-> d.task[Len(d.task)].sliceEnd]>>]
        \* the split BuildHQ settles on: a spatial split is considered when the
        \* slice has room and the sides of the best object split overlap
        FindSplitHQ(s, node, obj, vertices) ==
            IF s.sliceEnd - s.sliceStart > node.triCount /\ obj.cost.k # "init"
               /\ SpatialOverlap(obj, s.rootArea)
            THEN FindSpatialSplit(obj, s.sliceEnd - s.sliceStart, node, s.triIdx, s.fragment, s.minDim,
                                  vertices)
            ELSE obj
        RECURSIVE SubdivideHQ(_, _)
        CreateChildrenHQ(s, node, best, q, vertices) ==
            IF q.oob THEN Parted(s, q)
            ELSE IF q.A = s.sliceStart \/ q.B = s.sliceEnd
            THEN IF s.task = <<>> THEN Parted(s, q) ELSE SubdivideHQ(PopTaskHQ(Parted(s, q)), vertices)
            ELSE SubdivideHQ(Emitted(DescendHQ(s, node, best, q)), vertices)
        SplitNodeHQ(s, node, best, vertices) ==
            IF NotWorthSplitting(best.cost, node.triCount, SA(node.aabbMin, node.aabbMax))
            THEN IF s.task = <<>> THEN s ELSE SubdivideHQ(PopTaskHQ(s), vertices)
            ELSE CreateChildrenHQ(s, node, best,
                     PartitionHQ(0, [A |-> s.sliceStart, B |-> s.sliceEnd, triIdxB |-> s.triIdxB,
                                     fragment |-> s.fragment, nextFrag |-> s.nextFrag, oob |-> s.oob],
                                 node, best, s.triIdx, s.minDim, vertices),
                     vertices)
        SubdivideHQ(s, vertices) ==
            SplitNodeHQ(s, s.bvhNode[s.nodeIdx],
                        FindSplitHQ(s, s.bvhNode[s.nodeIdx],
                                    FindObjectSplit(s.bvhNode[s.nodeIdx], s.triIdx, s.fragment, s.minDim),
                                    vertices),
                        vertices)
        \* the allocation branch at the head of BuildHQ
        ResetNodePoolHQ(t, h, who, primCount) ==
            LET slack == primCount \div 4
                h1 == AlignedFree(AlignedFree(AlignedFree(h, who, t.bvhNode), who, t.triIdx), who, t.fragment)
                h2 == AlignedAlloc(h1, who, 3 * primCount, UninitNode)
                h3 == [h2 EXCEPT !.buf[LastAlloc(h2)][1] = ZeroNode]
                h4 == AlignedAlloc(h3, who, primCount + slack, "uninit")
                h5 == AlignedAlloc(h4, who, primCount + slack, UninitFrag)
            IN  [t |-> [t EXCEPT !.bvhNode = LastAlloc(h2), !.triIdx = LastAlloc(h4),
                                 !.fragment = LastAlloc(h5), !.allocatedNodes = 3 * primCount],
                 h |-> h5]
        RECURSIVE InitFragmentsHQ(_, _, _, _)
        InitFragmentsHQ(i, s, vertices, triCount) ==
            IF i = triCount
            THEN [s EXCEPT !.minDim = MinDim(s.bvhNode[0]),
                           !.rootArea = SA(s.bvhNode[0].aabbMin, s.bvhNode[0].aabbMax)]
            ELSE InitFragmentsHQ(i + 1,
                     [s EXCEPT !.fragment[i] = [@ EXCEPT !.bmin = TriMin(Triangle(vertices, i)),
                                                         !.bmax = TriMax(Triangle(vertices, i)),
                                                         !.primIdx = i],
                               !.triIdx[i] = i,
                               !.bvhNode[0] = [@ EXCEPT !.aabbMin = VMin(@, TriMin(Triangle(vertices, i))),
                                                        !.aabbMax = VMax(@, TriMax(Triangle(vertices, i)))]],
                     vertices, triCount)
        \* the state BuildHQ starts its loops in: both index arrays cleared over
        \* count = triCount + slack entries, the whole slice free for the root
        RootStateHQ(r, primCount, count) ==
            [bvhNode |-> [r.h.buf[r.t.bvhNode] EXCEPT ![0] =
                             [aabbMin |-> VAll(BVH_FAR), aabbMax |-> VAll(-BVH_FAR),
                              leftFirst |-> 0, triCount |-> primCount]],
             triIdx |-> [i \in DOMAIN r.h.buf[r.t.triIdx] |->
                            IF i < count THEN 0 ELSE r.h.buf[r.t.triIdx][i]] @@ <<>>,
             triIdxB |-> [i \in 0 .. count - 1 |-> 0] @@ <<>>,
             fragment |-> r.h.buf[r.t.fragment],
             newNodePtr |-> FirstNewNode, nextFrag |-> primCount, task |-> <<>>, nodeIdx |-> 0,
             sliceStart |-> 0, sliceEnd |-> count,
             minDim |-> VAll(0), rootArea |-> 0, oob |-> FALSE, slices |-> <<>>]
        \* the end of BuildHQ: the index array gets the primitive of each fragment;
        \* refs is the index array before that loop; hB is the heap with triIdxB,
        \* allocated with new and never deleted
        StoreTreeHQ(r, hB, s, vertices, primCount, count) ==
            [t |-> [r.t EXCEPT !.verts = vertices, !.triCount = primCount, !.idxCount = count,
                               !.refittable = FALSE, !.frag_min_flipped = FALSE,
                               !.may_have_holes = FALSE, !.usedNodes = s.newNodePtr],
             h |-> [hB EXCEPT !.buf[r.t.bvhNode] = s.bvhNode,
                              !.buf[r.t.triIdx] = [i \in DOMAIN s.triIdx |->
                                                      IF i < count /\ ~s.oob THEN s.fragment[s.triIdx[i]].primIdx
                                                      ELSE s.triIdx[i]] @@ <<>>,
                              !.buf[r.t.fragment] = s.fragment, !.buf[LastAlloc(hB)] = s.triIdxB],
             refs |-> s.triIdx, oob |-> s.oob, nextFrag |-> s.nextFrag, slices |-> s.slices]
        \* BVH::BuildHQ( const bvhvec4slice& vertices ) past its fatal checks
        BuildHQIn(r, who, vertices, primCount, count) ==
            StoreTreeHQ(r, AllocArray(r.h, who, [i \in 0 .. count - 1 |-> 0]),
                        SubdivideHQ(InitFragmentsHQ(0, RootStateHQ(r, primCount, count), r.h.buf[vertices.data],
                                                    primCount),
                                    r.h.buf[vertices.data]),
                        vertices, primCount, count)
    IN  BuildHQIn(IF t0.allocatedNodes < 3 * (vertices0.count \div 3)
                  THEN ResetNodePoolHQ(t0, h0, who0, vertices0.count \div 3) ELSE [t |-> t0, h |-> h0],
                  who0, vertices0, vertices0.count \div 3,
                  vertices0.count \div 3 + (vertices0.count \div 3) \div 4)

(***************************************************************************)
(* BVH::BuildAVX: the binned builder with fragment minima stored negated.  *)
(***************************************************************************)
VNeg(v) == <<-v[1], -v[2], -v[3]>>

\* the two nested while(1) loops of BuildAVX

\* fragments and root bounds of BuildAVX: frag4[i] overwrites all 32 bytes of
\* the fragment, so primIdx and clipped receive the w components of the
\* vertices; the model leaves them as they were

BuildAVXBody(t0, h0, who0, vertices0) ==
    LET \* _mm_cvtps_epi32 of the fraction n / d, d > 0: to the nearest integer, a tie
        \* to the even one
        RoundHalfEven(n, d) ==
            LET fl == n \div d
                rem == n - fl * d
            IN  IF 2 * rem < d THEN fl
                ELSE IF 2 * rem > d THEN fl + 1
                ELSE IF fl % 2 = 0 THEN fl ELSE fl + 1
        \* bi4 of the binning loop: ((bmax - bmin4 - 2 * nmin) * rpd4 - 0.5), rounded
        \* and clamped, rpd4 = BVHBINS * 0.49999f / d, or 0 when d = 0
        AVXBin(f, a, node) ==
            LET d == node.aabbMax[a] - node.aabbMin[a]
                m == f.bmax[a] - f.bmin[a] - 2 * node.aabbMin[a]
            IN  IF d = 0 THEN 0
                ELSE tinybvh_clamp(RoundHalfEven(2 * m * 49999 - 12500 * d, 2 * 12500 * d), 0, BVHBINS - 1)
        \* bi of the partition loop: (uint32_t)((bmax - bmin - nmin) * rpd)
        AVXPartitionBin(f, a, node) ==
            LET d == node.aabbMax[a] - node.aabbMin[a]
                m == f.bmax[a] - f.bmin[a] - 2 * node.aabbMin[a]
            IN  IF d = 0 THEN 0 ELSE (m * 49999) \div (12500 * d)
        \* PROCESS_PLANE runs over the planes of an axis in this order
        PlaneOrder == <<3, 2, 4, 5, 1, 0, 6>>
        PlaneRank(pos) == CHOOSE k \in 1 .. Len(PlaneOrder) : PlaneOrder[k] = pos
        \* the lower corner of the fragments at the positions P, kept negated as
        \* the builder keeps it: the maximum of the negated minima
        AVXNegMin(P, triIdx, fragment) ==
            LET m(a) == SetMax({fragment[triIdx[p]].bmin[a] : p \in P} \cup {-BVH_FAR})
            IN  <<m(1), m(2), m(3)>>
        \* PROCESS_PLANE: the split at plane i of axis a, of cost BVH_FAR when a
        \* side is empty
        AVXCandidateOver(a, i, L, R, triIdx, fragment) ==
            [cost |-> IF Cardinality(L) * Cardinality(R) = 0 THEN [k |-> "far", s |-> 0]
                      ELSE [k |-> "fin",
                            s |-> halfArea(VSub(BoundsMax(L, triIdx, fragment), VNeg(AVXNegMin(L, triIdx, fragment))))
                                     * Cardinality(L)
                                  + halfArea(VSub(BoundsMax(R, triIdx, fragment), VNeg(AVXNegMin(R, triIdx, fragment))))
                                     * Cardinality(R)],
             axis |-> a, pos |-> i, rank |-> PlaneRank(i), spatial |-> FALSE,
             LMin |-> VNeg(AVXNegMin(L, triIdx, fragment)), LMax |-> BoundsMax(L, triIdx, fragment),
             RMin |-> VNeg(AVXNegMin(R, triIdx, fragment)), RMax |-> BoundsMax(R, triIdx, fragment),
             NL |-> Cardinality(L), NR |-> Cardinality(R)]
        AVXCandidate(a, i, node, triIdx, fragment) ==
            AVXCandidateOver(a, i,
                {p \in NodePos(node) : AVXBin(fragment[triIdx[p]], a, node) <= i},
                {p \in NodePos(node) : AVXBin(fragment[triIdx[p]], a, node) > i},
                triIdx, fragment)
        \* the search of BuildAVX: a plane with an empty side is skipped
        FindSplitAVX(node, triIdx, fragment, minDim) ==
            BestOf({c \in {AVXCandidate(a, i, node, triIdx, fragment) :
                              a \in SplitAxes(node, minDim), i \in 0 .. BVHBINS - 2} : c.cost.k = "fin"},
                   NoSplit, SA(node.aabbMin, node.aabbMax))
        RECURSIVE SubdivideAVX(_)
        CreateChildrenAVX(s, node, best, part) ==
            IF part.src = node.leftFirst \/ part.src = node.leftFirst + node.triCount
            THEN IF s.task = <<>> THEN [s EXCEPT !.triIdx = part.triIdx]
                 ELSE SubdivideAVX(PopTask([s EXCEPT !.triIdx = part.triIdx]))
            ELSE SubdivideAVX(Descend(s, part,
                     [aabbMin |-> best.LMin, aabbMax |-> best.LMax,
                      leftFirst |-> node.leftFirst, triCount |-> part.src - node.leftFirst],
                     [aabbMin |-> best.RMin, aabbMax |-> best.RMax,
                      leftFirst |-> part.j, triCount |-> node.triCount - (part.src - node.leftFirst)]))
        SplitNodeAVX(s, node, best) ==
            IF NotWorthSplitting(best.cost, node.triCount, SA(node.aabbMin, node.aabbMax))
            THEN IF s.task = <<>> THEN s ELSE SubdivideAVX(PopTask(s))
            ELSE CreateChildrenAVX(s, node, best,
                     Partition(0, node.leftFirst, node.leftFirst + node.triCount, s.triIdx, node.triCount,
                               {fi \in NodeFrags(node, s.triIdx) :
                                   AVXPartitionBin(s.fragment[fi], best.axis, node) <= best.pos}))
        SubdivideAVX(s) ==
            SplitNodeAVX(s, s.bvhNode[s.nodeIdx],
                         FindSplitAVX(s.bvhNode[s.nodeIdx], s.triIdx, s.fragment, s.minDim))
        \* the allocation branch of BuildAVX: triIdx is allocated before the nodes
        ResetNodePoolAVX(t, h, who, primCount) ==
            LET h1 == AlignedFree(AlignedFree(AlignedFree(h, who, t.bvhNode), who, t.triIdx), who, t.fragment)
                h2 == AlignedAlloc(h1, who, primCount, "uninit")
                h3 == AlignedAlloc(h2, who, 2 * primCount, UninitNode)
                h4 == [h3 EXCEPT !.buf[LastAlloc(h3)][1] = ZeroNode]
                h5 == AlignedAlloc(h4, who, primCount, UninitFrag)
            IN  [t |-> [t EXCEPT !.triIdx = LastAlloc(h2), !.bvhNode = LastAlloc(h3),
                                 !.fragment = LastAlloc(h5), !.allocatedNodes = 2 * primCount],
                 h |-> h5]
        RECURSIVE InitFragmentsAVX(_, _, _, _)
        InitFragmentsAVX(i, s, vertices, triCount) ==
            IF i = triCount THEN [s EXCEPT !.minDim = MinDim(s.bvhNode[0])]
            ELSE LET tri == Triangle(vertices, i)
                     root == s.bvhNode[0]
                 IN  InitFragmentsAVX(i + 1,
                         [s EXCEPT !.fragment[i] = [@ EXCEPT !.bmin = VNeg(TriMin(tri)), !.bmax = TriMax(tri)],
                                   !.triIdx[i] = i,
                                   !.bvhNode[0] = [root EXCEPT !.aabbMin = VMin(root.aabbMin, TriMin(tri)),
                                                               !.aabbMax = VMax(root.aabbMax, TriMax(tri))]],
                         vertices, triCount)
        \* BVH::BuildAVX( const bvhvec4slice& vertices ) past its fatal checks
        BuildAVXIn(r, vertices, primCount) ==
            StoreTree(r, SubdivideAVX(InitFragmentsAVX(0, RootState(r, primCount), r.h.buf[vertices.data],
                                                       primCount)),
                      vertices, primCount, TRUE, r.t.bvh_over_aabbs)
    IN  BuildAVXIn(IF t0.allocatedNodes < 2 * (vertices0.count \div 3)
                   THEN ResetNodePoolAVX(t0, h0, who0, vertices0.count \div 3) ELSE [t |-> t0, h |-> h0],
                   vertices0, vertices0.count \div 3)

(***************************************************************************)
(* Rays and the scalar traversals BVH::Intersect and BVH::IsOccluded.      *)
(* A distance along a ray is a fraction n / d with d > 0, kept in lowest   *)
(* terms; BVH_FAR and the products with the reciprocal BVH_FAR of a zero   *)
(* direction component exceed every distance of a scene and are the        *)
(* fractions 1 / 0 and -1 / 0. A ray direction is a vector of small        *)
(* integers, a distance counts multiples of it in whole units.             *)
(***************************************************************************)
Abs(x) == IF x < 0 THEN -x ELSE x
Frac(n, d) ==
    LET RECURSIVE Gcd(_, _)
        Gcd(a, b) == IF b = 0 THEN a ELSE Gcd(b, a % b)
    IN  IF d = 0 THEN [n |-> IF n > 0 THEN 1 ELSE IF n < 0 THEN -1 ELSE 0, d |-> IF n = 0 THEN 1 ELSE 0]
        ELSE IF n = 0 THEN [n |-> 0, d |-> 1]
        ELSE [n |-> (IF d < 0 THEN -n ELSE n) \div Gcd(Abs(n), Abs(d)), d |-> Abs(d) \div Gcd(Abs(n), Abs(d))]
Far == Frac(1, 0)
RLess(a, b) == IF a.d = 0 /\ b.d = 0 THEN a.n < b.n ELSE a.n * b.d < b.n * a.d
RMin(a, b) == IF RLess(a, b) THEN a ELSE b
RMax(a, b) == IF RLess(b, a) THEN a ELSE b

Dot(u, v) == u[1] * v[1] + u[2] * v[2] + u[3] * v[3]
Cross(u, v) == <<u[2] * v[3] - u[3] * v[2], u[3] * v[1] - u[1] * v[3], u[1] * v[2] - u[2] * v[1]>>
Whole(v) == <<v[1] \div Unit, v[2] \div Unit, v[3] \div Unit>>

\* Ray::Ray( origin, direction, t ): memset, then O, D and hit.t
Ray(origin, direction, t) ==
    [O |-> origin, D |-> direction, hit |-> [t |-> t, u |-> Frac(0, 1), v |-> Frac(0, 1), prim |-> 0]]

MoellerTrumbore(ray, tri) ==
    LET \* the Moeller-Trumbore products of a ray and a triangle: a, and u, v and t
        \* before their division by a
        Products(D, edge1, edge2, s) ==
            [a |-> Dot(edge1, Cross(D, edge2)), u |-> Dot(s, Cross(D, edge2)),
             v |-> Dot(D, Cross(s, edge1)), t |-> Dot(edge2, Cross(s, edge1))]
    IN  Products(ray.D, Whole(VSub(tri[2], tri[1])), Whole(VSub(tri[3], tri[1])), Whole(VSub(ray.O, tri[1])))

\* the tests of IntersectTri on the products m: a hit inside the triangle,
\* in front of the origin and nearer than hit.t
InTriangle(m) ==
    /\ m.a # 0
    /\ ~(RLess(Frac(m.u, m.a), Frac(0, 1)) \/ RLess(Frac(1, 1), Frac(m.u, m.a)))
    /\ ~(RLess(Frac(m.v, m.a), Frac(0, 1)) \/ RLess(Frac(1, 1), Frac(m.u + m.v, m.a)))
Shortens(ray, m) == RLess(Frac(0, 1), Frac(m.t, m.a)) /\ RLess(Frac(m.t, m.a), ray.hit.t)
RegisterHit(ray, idx, m) ==
    IF InTriangle(m) /\ Shortens(ray, m)
    THEN [ray EXCEPT !.hit = [t |-> Frac(m.t, m.a), u |-> Frac(m.u, m.a),
                              v |-> Frac(m.v, m.a), prim |-> idx]]
    ELSE ray
IntersectTri(ray, verts, idx) == RegisterHit(ray, idx, MoellerTrumbore(ray, Triangle(verts, idx)))

IntersectAABB(ray0, aabbMin, aabbMax) ==
    LET \* one product of the slab test: ( x - O ) * rD, with rD = tinybvh_safercp( D )
        SlabT(x, o, d) == IF d = 0 THEN Frac(x - o, 0) ELSE Frac(x - o, Unit * d)
        SlabMin(ray, bmin, bmax, a) == RMin(SlabT(bmin[a], ray.O[a], ray.D[a]), SlabT(bmax[a], ray.O[a], ray.D[a]))
        SlabMax(ray, bmin, bmax, a) == RMax(SlabT(bmin[a], ray.O[a], ray.D[a]), SlabT(bmax[a], ray.O[a], ray.D[a]))
        SlabTest(ray, tmin, tmax) ==
            IF ~RLess(tmax, tmin) /\ RLess(tmin, ray.hit.t) /\ ~RLess(tmax, Frac(0, 1)) THEN tmin ELSE Far
    IN  SlabTest(ray0,
            RMax(RMax(SlabMin(ray0, aabbMin, aabbMax, 1), SlabMin(ray0, aabbMin, aabbMax, 2)),
                 SlabMin(ray0, aabbMin, aabbMax, 3)),
            RMin(RMin(SlabMax(ray0, aabbMin, aabbMax, 1), SlabMax(ray0, aabbMin, aabbMax, 2)),
                 SlabMax(ray0, aabbMin, aabbMax, 3)))

\* a sort that also swaps the children when their distances are equal
SortedSwapOnTie(ray0, nodes0, n) ==
    LET NearFar(leftFirst, dist1, dist2) ==
            IF ~RLess(dist1, dist2)
            THEN [near |-> leftFirst + 1, far |-> leftFirst, dist1 |-> dist2, dist2 |-> dist1]
            ELSE [near |-> leftFirst, far |-> leftFirst + 1, dist1 |-> dist1, dist2 |-> dist2]
        ChildDist(ray, nodes, c) == IntersectAABB(ray, nodes[c].aabbMin, nodes[c].aabbMax)
    IN  NearFar(nodes0[n].leftFirst, ChildDist(ray0, nodes0, nodes0[n].leftFirst),
                ChildDist(ray0, nodes0, nodes0[n].leftFirst + 1))

Sorted(ray0, nodes0, n) ==
    LET \* both children of an interior node with their distances, nearest first
        NearFar(leftFirst, dist1, dist2) ==
            IF RLess(dist2, dist1)
            THEN [near |-> leftFirst + 1, far |-> leftFirst, dist1 |-> dist2, dist2 |-> dist1]
            ELSE [near |-> leftFirst, far |-> leftFirst + 1, dist1 |-> dist1, dist2 |-> dist2]
        ChildDist(ray, nodes, c) == IntersectAABB(ray, nodes[c].aabbMin, nodes[c].aabbMax)
    IN  NearFar(nodes0[n].leftFirst, ChildDist(ray0, nodes0, nodes0[n].leftFirst),
                ChildDist(ray0, nodes0, nodes0[n].leftFirst + 1))
Pushed(stack, o) == IF o.dist2 # Far THEN Append(stack, o.far) ELSE stack
Top(stack) == stack[Len(stack)]
Popped(stack) == SubSeq(stack, 1, Len(stack) - 1)

\* BVH * stack[64] of BVH::Intersect and BVH::IsOccluded
StackSize == 64

\* BVH::Intersect( Ray& ray ): the ray it leaves behind, and the highest
\* stackPtr a push left behind (top)
IntersectStack(t, h, ray0) ==
    LET RECURSIVE IntersectLeaf(_, _, _, _, _)
        IntersectLeaf(ray, verts, triIdx, first, count) ==
            IF count = 0 THEN ray
            ELSE IntersectLeaf(IntersectTri(ray, verts, triIdx[first]), verts, triIdx, first + 1, count - 1)
        \* if (stackPtr == 0) break; else node = stack[--stackPtr];
        IntersectPop(s, ray) ==
            IF s.stack = <<>> THEN [s EXCEPT !.ray = ray, !.done = TRUE]
            ELSE [s EXCEPT !.ray = ray, !.n = Top(s.stack), !.stack = Popped(s.stack)]
        IntersectDescend(s, o) ==
            IF o.dist1 = Far THEN IntersectPop(s, s.ray)
            ELSE [s EXCEPT !.n = o.near, !.stack = Pushed(@, o),
                           !.top = IF Len(Pushed(s.stack, o)) > @ THEN Len(Pushed(s.stack, o)) ELSE @]
        \* one pass of the while(1)
        IntersectStep(g, s) ==
            IF isLeaf(g.nodes[s.n])
            THEN IntersectPop(s, IntersectLeaf(s.ray, g.verts, g.triIdx, g.nodes[s.n].leftFirst,
                                               g.nodes[s.n].triCount))
            ELSE IntersectDescend(s, Sorted(s.ray, g.nodes, s.n))
        \* up to 2^k passes, and the loop to its end
        RECURSIVE IntersectPasses(_, _, _)
        IntersectPasses(g, s, k) ==
            IF s.done THEN s
            ELSE IF k = 0 THEN IntersectStep(g, s)
            ELSE IntersectPasses(g, IntersectPasses(g, s, k - 1), k - 1)
        RECURSIVE IntersectFrom(_, _, _)
        IntersectFrom(g, s, k) == IF s.done THEN s ELSE IntersectFrom(g, IntersectPasses(g, s, k), k + 1)
    IN  IntersectFrom([nodes |-> h.buf[t.bvhNode], triIdx |-> h.buf[t.triIdx], verts |-> h.buf[t.verts.data]],
                      [ray |-> ray0, n |-> 0, stack |-> <<>>, top |-> 0, done |-> FALSE], 0)

IntersectBody(t, h, ray0) == IntersectStack(t, h, ray0).ray

OccludesBehind(ray, m) == InTriangle(m) /\ RLess(Frac(m.t, m.a), ray.hit.t)
Occludes(ray, m) ==
    /\ InTriangle(m)
    /\ RLess(Frac(0, 1), Frac(m.t, m.a)) /\ RLess(Frac(m.t, m.a), ray.hit.t)
\* BVH::IsOccluded( const Ray& ray )
IsOccludedBody(t, h, ray0) ==
    LET RECURSIVE IsOccludedFrom(_, _, _, _, _, _)
        IsOccludedPop(nodes, triIdx, verts, ray, stack) ==
            stack # <<>> /\ IsOccludedFrom(nodes, triIdx, verts, ray, Top(stack), Popped(stack))
        IsOccludedDescend(nodes, triIdx, verts, ray, stack, o) ==
            IF o.dist1 = Far THEN IsOccludedPop(nodes, triIdx, verts, ray, stack)
            ELSE IsOccludedFrom(nodes, triIdx, verts, ray, o.near, Pushed(stack, o))
        IsOccludedFrom(nodes, triIdx, verts, ray, n, stack) ==
            IF isLeaf(nodes[n])
            THEN \/ \E i \in NodePos(nodes[n]) : Occludes(ray, MoellerTrumbore(ray, Triangle(verts, triIdx[i])))
                 \/ IsOccludedPop(nodes, triIdx, verts, ray, stack)
            ELSE IsOccludedDescend(nodes, triIdx, verts, ray, stack, Sorted(ray, nodes, n))
    IN  IsOccludedFrom(h.buf[t.bvhNode], h.buf[t.triIdx], h.buf[t.verts.data], ray0, 0, <<>>)

(***************************************************************************)
(* BVH4::ConvertFrom( const BVH& ): a 4-wide node for each node of the     *)
(* original, then the collapse of interior children into their parents.    *)
(***************************************************************************)

\* a BVH4 after its constructor
NewBVH4 ==
    [bvh4Node |-> 0, bvh |-> NewBVH, ownBVH |-> TRUE,
     rebuildable |-> TRUE, refittable |-> TRUE, frag_min_flipped |-> FALSE,
     may_have_holes |-> FALSE, bvh_over_aabbs |-> FALSE,
     allocatedNodes |-> 0, usedNodes |-> 0, triCount |-> 0, idxCount |-> 0]

\* BVHBase::CopyBasePropertiesFrom
CopyBasePropertiesFrom(t, original) ==
    [t EXCEPT !.rebuildable = original.rebuildable, !.refittable = original.refittable,
              !.frag_min_flipped = original.frag_min_flipped,
              !.may_have_holes = original.may_have_holes,
              !.bvh_over_aabbs = original.bvh_over_aabbs,
              !.triCount = original.triCount, !.idxCount = original.idxCount]

BVH4ConvertFrom(w0, h0, who0, original0) ==
    LET ZeroNode4 ==
            [aabbMin |-> VAll(0), aabbMax |-> VAll(0), firstTri |-> 0, triCount |-> 0,
             child |-> [k \in 0 .. 3 |-> 0], childCount |-> 0]
        \* the 4-wide node made from node orig of the original
        Node4Of(orig) ==
            IF isLeaf(orig)
            THEN [ZeroNode4 EXCEPT !.aabbMin = orig.aabbMin, !.aabbMax = orig.aabbMax,
                                   !.triCount = orig.triCount, !.firstTri = orig.leftFirst]
            ELSE [ZeroNode4 EXCEPT !.aabbMin = orig.aabbMin, !.aabbMax = orig.aabbMax,
                                   !.child = [k \in 0 .. 3 |-> IF k < 2 THEN orig.leftFirst + k ELSE 0],
                                   !.childCount = 2]
        \* the child a node adopts next: the first of the interior children that
        \* fit with the greatest area, -1 if there is none
        ChildSA(nodes4, n, i) == SA(nodes4[nodes4[n].child[i]].aabbMin, nodes4[nodes4[n].child[i]].aabbMax)
        Adoptable(nodes4, n) ==
            {i \in 0 .. nodes4[n].childCount - 1 :
                /\ ~isLeaf(nodes4[nodes4[n].child[i]])
                /\ nodes4[n].childCount - 1 + nodes4[nodes4[n].child[i]].childCount <= 4
                /\ ChildSA(nodes4, n, i) > 0}
        BestChild(nodes4, n) ==
            IF Adoptable(nodes4, n) = {} THEN -1
            ELSE CHOOSE i \in Adoptable(nodes4, n) : \A j \in Adoptable(nodes4, n) :
                     \/ ChildSA(nodes4, n, j) < ChildSA(nodes4, n, i)
                     \/ ChildSA(nodes4, n, j) = ChildSA(nodes4, n, i) /\ i <= j
        Adopted(node, child, i) ==
            [node EXCEPT !.child = [k \in 0 .. 3 |->
                                       IF k = i THEN child.child[0]
                                       ELSE IF k >= node.childCount /\ k < node.childCount + child.childCount - 1
                                            THEN child.child[k - node.childCount + 1]
                                            ELSE node.child[k]],
                         !.childCount = node.childCount + child.childCount - 1]
        RECURSIVE Adopt(_, _)
        AdoptBest(nodes4, n, bestChild) ==
            IF bestChild = -1 THEN nodes4
            ELSE Adopt([nodes4 EXCEPT ![n] = Adopted(nodes4[n], nodes4[nodes4[n].child[bestChild]], bestChild)], n)
        Adopt(nodes4, n) ==
            IF nodes4[n].childCount < 4 THEN AdoptBest(nodes4, n, BestChild(nodes4, n)) ELSE nodes4
        \* the interior children of node n, in the order of their slots
        InteriorChildren(nodes4, n) ==
            LET interior(c) == ~isLeaf(nodes4[c])
            IN  SelectSeq([k \in 1 .. nodes4[n].childCount |-> nodes4[n].child[k - 1]], interior)
        RECURSIVE Collapse(_, _, _)
        CollapseNext(nodes4, stack) ==
            IF stack = <<>> THEN nodes4 ELSE Collapse(nodes4, Top(stack), Popped(stack))
        CollapseChildren(nodes4, n, stack) == CollapseNext(nodes4, stack \o InteriorChildren(nodes4, n))
        Collapse(nodes4, n, stack) == CollapseChildren(Adopt(nodes4, n), n, stack)
        \* the node pool of this BVH4, large enough for the original
        ResetNodePool4(w, h, who, spaceNeeded) ==
            IF w.allocatedNodes < spaceNeeded
            THEN [t |-> [w EXCEPT !.bvh4Node = LastAlloc(h) + 1, !.allocatedNodes = spaceNeeded],
                  h |-> AlignedAlloc(AlignedFree(h, who, w.bvh4Node), who, spaceNeeded, "uninit")]
            ELSE [t |-> w, h |-> h]
        StoreNodes4(r, original, nodes) ==
            [t |-> [CopyBasePropertiesFrom(r.t, original) EXCEPT
                        !.usedNodes = original.usedNodes, !.may_have_holes = TRUE],
             h |-> [r.h EXCEPT !.buf[r.t.bvh4Node] =
                       [i \in DOMAIN r.h.buf[r.t.bvh4Node] |->
                           IF i < original.usedNodes THEN nodes[i] ELSE r.h.buf[r.t.bvh4Node][i]]]]
    IN  StoreNodes4(ResetNodePool4([w0 EXCEPT !.ownBVH = FALSE, !.bvh = original0], h0, who0, original0.usedNodes),
            original0,
            Collapse([i \in 0 .. original0.usedNodes - 1 |->
                         IF i = 1 THEN ZeroNode4 ELSE Node4Of(h0.buf[original0.bvhNode][i])], 0, <<0>>))

(***************************************************************************)
(* BVH4_CPU::ConvertFrom( const BVH4& ): four child boxes per node, and    *)
(* the triangles of the leaves stored by value, precomputed.               *)
(***************************************************************************)

\* a BVH4_CPU after its constructor
NewBVH4_CPU ==
    [bvh4Node |-> 0, bvh4Tris |-> 0, bvh4 |-> NewBVH4, ownBVH4 |-> TRUE,
     rebuildable |-> TRUE, refittable |-> TRUE, frag_min_flipped |-> FALSE,
     may_have_holes |-> FALSE, bvh_over_aabbs |-> FALSE,
     allocatedNodes |-> 0, usedNodes |-> 0, triCount |-> 0, idxCount |-> 0]

\* the first loop: s.nodes grows by one node per interior node of the original

PrecomputeTriangle(tri) ==
    LET \* BVHBase::PrecomputeTriangle: the rows of T over their common denominator,
        \* the component of the normal that is largest; den = 0 for a degenerate triangle
        Dominant(N) ==
            IF Abs(N[1]) > Abs(N[2]) /\ Abs(N[1]) > Abs(N[3]) THEN 1
            ELSE IF Abs(N[2]) > Abs(N[3]) THEN 2
            ELSE IF Abs(N[3]) > 0 THEN 3 ELSE 0
        Rows(k, v0, v1, v2, e1, e2, N) ==
            IF k = 1 THEN [U |-> <<0, e2[3], -e2[2]>>, u3 |-> v2[2] * v0[3] - v2[3] * v0[2],
                           V |-> <<0, -e1[3], e1[2]>>, v3 |-> -(v1[2] * v0[3] - v1[3] * v0[2]),
                           N |-> N, n |-> Dot(v0, N), den |-> N[1]]
            ELSE IF k = 2 THEN [U |-> <<-e2[3], 0, e2[1]>>, u3 |-> v2[3] * v0[1] - v2[1] * v0[3],
                                V |-> <<e1[3], 0, -e1[1]>>, v3 |-> -(v1[3] * v0[1] - v1[1] * v0[3]),
                                N |-> N, n |-> Dot(v0, N), den |-> N[2]]
            ELSE IF k = 3 THEN [U |-> <<e2[2], -e2[1], 0>>, u3 |-> v2[1] * v0[2] - v2[2] * v0[1],
                                V |-> <<-e1[2], e1[1], 0>>, v3 |-> -(v1[1] * v0[2] - v1[2] * v0[1]),
                                N |-> N, n |-> Dot(v0, N), den |-> N[3]]
            ELSE [U |-> VAll(0), u3 |-> 0, V |-> VAll(0), v3 |-> 0, N |-> VAll(0), n |-> 0, den |-> 0]
        PrecomputeEdges(v0, v1, v2, e1, e2) ==
            Rows(Dominant(Cross(e1, e2)), v0, v1, v2, e1, e2, Cross(e1, e2))
    IN  PrecomputeEdges(Whole(tri[1]), Whole(tri[2]), Whole(tri[3]),
                        Whole(VSub(tri[2], tri[1])), Whole(VSub(tri[3], tri[1])))

\* the second loop: the triangles of the leaf lanes of node nodeIdx by value

BVH4_CPUConvertFrom(c0, h0, who0, original) ==
    LET \* a lane without a child: a box beyond BVH_FAR
        EmptyLane ==
            [aabbMin |-> VAll(BVH_FAR), aabbMax |-> VAll(BVH_FAR + BVH_FAR \div 100000),
             childFirst |-> 0, triCount |-> 0]
        \* the children of a 4-wide node in the order of their lanes: slots that hold 0 are skipped
        Lanes(orig) == SelectSeq([k \in 1 .. 4 |-> orig.child[k - 1]], LAMBDA c : c # 0)
        LaneOf(child) ==
            [aabbMin |-> child.aabbMin, aabbMax |-> child.aabbMax,
             childFirst |-> IF isLeaf(child) THEN child.firstTri ELSE 0,
             triCount |-> IF isLeaf(child) THEN child.triCount ELSE 0]
        NodeCPUOf(nodes4, orig) ==
            [c \in 0 .. 3 |-> IF c < Len(Lanes(orig)) THEN LaneOf(nodes4[Lanes(orig)[c + 1]]) ELSE EmptyLane]
        \* the tasks a node leaves on the stack: the lane to patch and the child to convert
        LaneTasks(nodes4, orig, newIdx) ==
            SelectSeq([c \in 1 .. Len(Lanes(orig)) |-> [node |-> newIdx, lane |-> c - 1, child |-> Lanes(orig)[c]]],
                      LAMBDA task : ~isLeaf(nodes4[task.child]))
        RECURSIVE ConvertNodes(_, _, _)
        ConvertPop(nodes4, s) ==
            IF s.stack = <<>> THEN s
            ELSE ConvertNodes(nodes4, Top(s.stack).child,
                     [s EXCEPT !.stack = Popped(s.stack),
                               !.nodes[Top(s.stack).node][Top(s.stack).lane].childFirst = s.newAlt4Ptr])
        ConvertNodes(nodes4, nodeIdx, s) ==
            ConvertPop(nodes4,
                [s EXCEPT !.nodes[s.newAlt4Ptr] = NodeCPUOf(nodes4, nodes4[nodeIdx]),
                          !.newAlt4Ptr = s.newAlt4Ptr + 1,
                          !.stack = s.stack \o LaneTasks(nodes4, nodes4[nodeIdx], s.newAlt4Ptr)])
        RECURSIVE StoreLane(_, _, _, _, _, _)
        RECURSIVE StoreTris(_, _, _, _)
        StoreLane(s, verts, triIdx, nodeIdx, i, j) ==
            IF j = s.nodes[nodeIdx][i].triCount
            THEN [s EXCEPT !.nodes[nodeIdx][i].childFirst = s.triPtr - 4 * j]
            ELSE StoreLane([s EXCEPT !.tris[s.triPtr] =
                                [T |-> PrecomputeTriangle(Triangle(verts, triIdx[s.nodes[nodeIdx][i].childFirst + j])),
                                 prim |-> triIdx[s.nodes[nodeIdx][i].childFirst + j]],
                                      !.triPtr = s.triPtr + 4],
                           verts, triIdx, nodeIdx, i, j + 1)
        RECURSIVE StoreLanes(_, _, _, _, _)
        StoreLanes(s, verts, triIdx, nodeIdx, i) ==
            IF i = 4 THEN s
            ELSE IF s.nodes[nodeIdx][i].triCount + s.nodes[nodeIdx][i].childFirst = 0
                 THEN StoreLanes(s, verts, triIdx, nodeIdx, i + 1)
            ELSE IF s.nodes[nodeIdx][i].triCount = 0
                 THEN StoreLanes([s EXCEPT !.stack = Append(s.stack, s.nodes[nodeIdx][i].childFirst)],
                                 verts, triIdx, nodeIdx, i + 1)
            ELSE StoreLanes(StoreLane(s, verts, triIdx, nodeIdx, i, 0), verts, triIdx, nodeIdx, i + 1)
        StoreTrisPop(s, verts, triIdx) ==
            IF s.stack = <<>> THEN s
            ELSE StoreTris([s EXCEPT !.stack = Popped(s.stack)], verts, triIdx, Top(s.stack))
        StoreTris(s, verts, triIdx, nodeIdx) == StoreTrisPop(StoreLanes(s, verts, triIdx, nodeIdx, 0), verts, triIdx)
        ZeroNodeCPU == [c \in 0 .. 3 |-> [aabbMin |-> VAll(0), aabbMax |-> VAll(0), childFirst |-> 0, triCount |-> 0]]
        \* the node pool and the triangle array of this BVH4_CPU, large enough for the original
        ResetNodePoolCPU(c, h, who, spaceNeeded) ==
            IF c.allocatedNodes < spaceNeeded
            THEN [t |-> [c EXCEPT !.bvh4Node = LastAlloc(h) + 1, !.bvh4Tris = LastAlloc(h) + 2,
                                  !.allocatedNodes = spaceNeeded],
                  h |-> AlignedAlloc(
                            AlignedAlloc(AlignedFree(AlignedFree(h, who, c.bvh4Node), who, c.bvh4Tris),
                                         who, spaceNeeded, "uninit"),
                            who, c.bvh4.idxCount * 4, "uninit")]
            ELSE [t |-> c, h |-> h]
        StoreNodesCPU(r, s) ==
            [t |-> [CopyBasePropertiesFrom(r.t, r.t.bvh4) EXCEPT !.usedNodes = s.newAlt4Ptr],
             h |-> [r.h EXCEPT !.buf[r.t.bvh4Node] = s.nodes, !.buf[r.t.bvh4Tris] = s.tris]]
        ConvertTris(r, s) ==
            StoreNodesCPU(r,
                StoreTris([nodes |-> s.nodes, newAlt4Ptr |-> s.newAlt4Ptr, tris |-> r.h.buf[r.t.bvh4Tris],
                           triPtr |-> 0, stack |-> <<>>],
                          r.h.buf[r.t.bvh4.bvh.verts.data], r.h.buf[r.t.bvh4.bvh.triIdx], 0))
        ConvertIn(r, spaceNeeded) ==
            ConvertTris(r,
                ConvertNodes(r.h.buf[r.t.bvh4.bvh4Node], 0,
                    [nodes |-> [i \in DOMAIN r.h.buf[r.t.bvh4Node] |->
                                   IF i < spaceNeeded THEN ZeroNodeCPU ELSE r.h.buf[r.t.bvh4Node][i]],
                     newAlt4Ptr |-> 0, stack |-> <<>>]))
    IN  ConvertIn(ResetNodePoolCPU([c0 EXCEPT !.ownBVH4 = FALSE, !.bvh4 = original], h0, who0, original.usedNodes),
                  original.usedNodes)

(***************************************************************************)
(* BVH4_CPU::Intersect.                                                    *)
(***************************************************************************)
IntersectCompactTri(ray0, tri0) ==
    LET \* IntersectCompactTri on the triangle T: ta = p / q, then u and v at O + ta * D
        CompactHit(ray, tri, p, q, wr) ==
            IF ~RLess(Frac(0, 1), Frac(p, q)) \/ ~RLess(Frac(p, q), ray.hit.t) THEN ray
            ELSE IF /\ ~RLess(Frac(Dot(tri.T.U, wr) + tri.T.u3 * q, tri.T.den * q), Frac(0, 1))
                    /\ ~RLess(Frac(Dot(tri.T.V, wr) + tri.T.v3 * q, tri.T.den * q), Frac(0, 1))
                    /\ RLess(Frac(Dot(tri.T.U, wr) + tri.T.u3 * q + Dot(tri.T.V, wr) + tri.T.v3 * q,
                                  tri.T.den * q), Frac(1, 1))
                 THEN [ray EXCEPT !.hit = [t |-> Frac(p, q),
                                           u |-> Frac(Dot(tri.T.U, wr) + tri.T.u3 * q, tri.T.den * q),
                                           v |-> Frac(Dot(tri.T.V, wr) + tri.T.v3 * q, tri.T.den * q),
                                           prim |-> tri.prim]]
                 ELSE ray
        CompactAt(ray, tri, O, p, q) ==
            CompactHit(ray, tri, p, q, <<O[1] * q + p * ray.D[1], O[2] * q + p * ray.D[2], O[3] * q + p * ray.D[3]>>)
    IN  IF tri0.T.den = 0 THEN ray0
        ELSE CompactAt(ray0, tri0, Whole(ray0.O), -(Dot(tri0.T.N, Whole(ray0.O)) - tri0.T.n), Dot(tri0.T.N, ray0.D))

\* the lanes a node was hit in, one after the other: s holds the ray, the
\* node to continue with and the stack
BVH4_CPUIntersect(c0, h, ray0) ==
    LET \* the distance at which the ray enters the box of a lane, Far for a miss
        LaneDist(ray, lane) ==
            IF lane.aabbMin = VAll(BVH_FAR) THEN Far ELSE IntersectAABB(ray, lane.aabbMin, lane.aabbMax)
        HitLanes(ray, node) == {c \in 0 .. 3 : LaneDist(ray, node[c]) # Far}
        \* lane y is processed before lane x by the sort of three or four hits:
        \* greatest distance first, the lane index in the low bits breaks a tie
        Before(ray, node, y, x) ==
            \/ RLess(LaneDist(ray, node[x]), LaneDist(ray, node[y]))
            \/ /\ LaneDist(ray, node[x]) = LaneDist(ray, node[y])
               /\ IF RLess(LaneDist(ray, node[x]), Frac(0, 1)) THEN y < x ELSE y > x
        SortedLanes(ray, node, H) ==
            [k \in 1 .. Cardinality(H) |->
                CHOOSE x \in H : Cardinality({y \in H : Before(ray, node, y, x)}) = k - 1]
        TwoLanes(ray, node, lane0, lane1) ==
            IF RLess(LaneDist(ray, node[lane1]), LaneDist(ray, node[lane0])) THEN <<lane1, lane0>> ELSE <<lane0, lane1>>
        Visits(ray, node, H) ==
            IF Cardinality(H) = 2 THEN TwoLanes(ray, node, SetMax(H), SetMin(H)) ELSE SortedLanes(ray, node, H)
        RECURSIVE LeafLane(_, _, _, _)
        LeafLane(ray, tris, first, count) ==
            IF count = 0 THEN ray
            ELSE LeafLane(IntersectCompactTri(ray, tris[first]), tris, first + 4, count - 1)
        RECURSIVE ProcessLanes(_, _, _, _, _)
        ProcessLanes(s, tris, node, visits, k) ==
            IF k > Len(visits) THEN s
            ELSE IF node[visits[k]].triCount = 0
                 THEN ProcessLanes([s EXCEPT !.stack = IF s.nodeIdx # 0 THEN Append(s.stack, s.nodeIdx) ELSE s.stack,
                                             !.nodeIdx = node[visits[k]].childFirst],
                                   tris, node, visits, k + 1)
            ELSE ProcessLanes([s EXCEPT !.ray = LeafLane(s.ray, tris, node[visits[k]].childFirst,
                                                         node[visits[k]].triCount)],
                              tris, node, visits, k + 1)
        RECURSIVE IntersectCPUFrom(_, _, _, _, _)
        IntersectCPUNext(nodes, tris, s) ==
            IF s.nodeIdx # 0 THEN IntersectCPUFrom(nodes, tris, s.ray, s.nodeIdx, s.stack)
            ELSE IF s.stack = <<>> THEN s.ray
            ELSE IntersectCPUFrom(nodes, tris, s.ray, Top(s.stack), Popped(s.stack))
        IntersectCPUFrom(nodes, tris, ray, nodeIdx, stack) ==
            IntersectCPUNext(nodes, tris,
                ProcessLanes([ray |-> ray, nodeIdx |-> 0, stack |-> stack], tris, nodes[nodeIdx],
                             Visits(ray, nodes[nodeIdx], HitLanes(ray, nodes[nodeIdx])), 1))
    IN  IntersectCPUFrom(h.buf[c0.bvh4Node], h.buf[c0.bvh4Tris], ray0, 0, <<>>)

(***************************************************************************)
(* BVH::Intersect256Rays: a packet is a function from 0 .. 255 to rays.    *)
(***************************************************************************)
\* distLeft < distRight for box distances of two rays of the packet: each
\* distance counts multiples of its ray's own direction, so a.t * |D of a.ray|
\* is compared with b.t * |D of b.ray| by sign and by squares
DistLess(packet, a, b) ==
    LET Sq(x, D) == Frac(x.n * x.n * Dot(D, D), x.d * x.d)
        Neg(x) == x.n < 0
    IN  IF Neg(a.t) # Neg(b.t) THEN Neg(a.t)
        ELSE IF Neg(a.t) THEN RLess(Sq(b.t, packet[b.ray].D), Sq(a.t, packet[a.ray].D))
        ELSE RLess(Sq(a.t, packet[a.ray].D), Sq(b.t, packet[b.ray].D))

\* the four bounding planes of the packet, built from the corner rays 0, 51,
\* 204 and 255; normalize() scales a plane by a positive factor (or leaves a
\* zero vector zero), which no test below can see
Planes(packet) ==
    LET Corner(r) == <<Whole(packet[r].O)[1] + packet[r].D[1], Whole(packet[r].O)[2] + packet[r].D[2],
                       Whole(packet[r].O)[3] + packet[r].D[3]>>
        Bound(O, p, q) == Cross(VSub(p, O), VSub(p, q))
        Four(O, p0, p1, p2, p3) == <<Bound(O, p0, p2), Bound(O, p3, p1), Bound(O, p1, p0), Bound(O, p2, p3)>>
    IN  Four(Whole(packet[0].O), Corner(0), Corner(51), Corner(204), Corner(255))

OutsidePlanesNearest(node, O, planes) ==
    LET Pick(plane, a) == IF plane[a] < 0 THEN node.aabbMin[a] ELSE node.aabbMax[a]
        Deepest(plane) == <<Pick(plane, 1), Pick(plane, 2), Pick(plane, 3)>>
    IN  \E k \in 1 .. 4 : Dot(Deepest(planes[k]), planes[k]) > Dot(O, planes[k])
\* early-out test: the corner of the node's box that lies deepest inside
\* plane k is outside it
OutsidePlanes(node, O, planes) ==
    LET Pick(plane, a) == IF plane[a] < 0 THEN node.aabbMax[a] ELSE node.aabbMin[a]
        Deepest(plane) == <<Pick(plane, 1), Pick(plane, 2), Pick(plane, 3)>>
    IN  \E k \in 1 .. 4 : Dot(Deepest(planes[k]), planes[k]) > Dot(O, planes[k])

\* the three tests on one child: early-in with ray first, early-out against
\* the planes, and last resort, the first and the last ray of first .. last
\* that hit the box
VisitChild(packet, planes, node, first, last) ==
    LET Dist(i) == IntersectAABB(packet[i], node.aabbMin, node.aabbMax)
        Hits == {i \in first .. last : Dist(i) # Far}
        Lowest(S) == CHOOSE i \in S : \A j \in S : i <= j
        Highest(S) == CHOOSE i \in S : \A j \in S : j <= i
        Shrunk(S) ==
            IF S = {} THEN [visit |-> FALSE, first |-> first, last |-> last, dist |-> [t |-> Far, ray |-> first]]
            ELSE [visit |-> TRUE, first |-> Lowest(S), last |-> Highest(S),
                  dist |-> [t |-> Dist(Lowest(S)), ray |-> Lowest(S)]]
    IN  IF Dist(first) # Far
        THEN [visit |-> TRUE, first |-> first, last |-> last, dist |-> [t |-> Dist(first), ray |-> first]]
        ELSE IF OutsidePlanes(node, packet[0].O, planes) THEN Shrunk({})
        ELSE Shrunk(Hits)

\* the leaf loop: every triangle of the leaf against every ray of first .. last,
\* with s taken from the origin O of ray 0
LeafPacket(packet, verts, triIdx, node, first, last) ==
    LET RECURSIVE LeafRay(_, _, _)
        LeafRay(ray, j, count) ==
            IF count = 0 THEN ray
            ELSE LeafRay(RegisterHit(ray, triIdx[j],
                             MoellerTrumbore([O |-> packet[0].O, D |-> ray.D], Triangle(verts, triIdx[j]))),
                         j + 1, count - 1)
    IN  [i \in 0 .. 255 |->
            IF first <= i /\ i <= last THEN LeafRay(packet[i], node.leftFirst, node.triCount) ELSE packet[i]]
        @@ <<>>

\* BVH::Intersect256Rays( Ray* packet ): the packet it leaves behind; g holds
\* the arrays of the tree and the planes, the stack holds a node index and
\* ( first << 8 ) + last per entry
Intersect256RaysBody(t, h, packet0) ==
    LET RECURSIVE PacketFrom(_, _, _, _, _, _)
        PacketPop(g, packet, stack) ==
            IF stack = <<>> THEN packet
            ELSE PacketFrom(g, packet, stack[Len(stack) - 1], Top(stack) \div 256, Top(stack) % 256,
                            SubSeq(stack, 1, Len(stack) - 2))
        PacketDescend(g, packet, node, stack, l, r) ==
            IF l.visit /\ r.visit
            THEN IF DistLess(packet, l.dist, r.dist)
                 THEN PacketFrom(g, packet, node.leftFirst, l.first, l.last,
                                 stack \o <<node.leftFirst + 1, r.first * 256 + r.last>>)
                 ELSE PacketFrom(g, packet, node.leftFirst + 1, r.first, r.last,
                                 stack \o <<node.leftFirst, l.first * 256 + l.last>>)
            ELSE IF l.visit THEN PacketFrom(g, packet, node.leftFirst, l.first, l.last, stack)
            ELSE IF r.visit THEN PacketFrom(g, packet, node.leftFirst + 1, r.first, r.last, stack)
            ELSE PacketPop(g, packet, stack)
        PacketFrom(g, packet, n, first, last, stack) ==
            IF isLeaf(g.nodes[n])
            THEN PacketPop(g, LeafPacket(packet, g.verts, g.triIdx, g.nodes[n], first, last), stack)
            ELSE PacketDescend(g, packet, g.nodes[n], stack,
                     VisitChild(packet, g.planes, g.nodes[g.nodes[n].leftFirst], first, last),
                     VisitChild(packet, g.planes, g.nodes[g.nodes[n].leftFirst + 1], first, last))
    IN  PacketFrom([nodes |-> h.buf[t.bvhNode], triIdx |-> h.buf[t.triIdx], verts |-> h.buf[t.verts.data],
                    planes |-> Planes(packet0)], packet0, 0, 0, 255, <<>>)

(***************************************************************************)
(* BVH_Verbose, the conversions to and from it, the fatal checks of        *)
(* BVH::Build and the destructors.                                         *)
(***************************************************************************)
\* a BVH_Verbose after its constructor
NewBVH_Verbose ==
    [bvhNode |-> 0, triIdx |-> 0, fragment |-> 0, verts |-> [data |-> 0, count |-> 0],
     rebuildable |-> TRUE, refittable |-> TRUE, frag_min_flipped |-> FALSE,
     may_have_holes |-> FALSE, bvh_over_aabbs |-> FALSE,
     allocatedNodes |-> 0, usedNodes |-> 0, triCount |-> 0, idxCount |-> 0]

\* memset( bvhNode, 0, sizeof( BVHNode ) * spaceNeeded )
Memset(h, ptr, zero, spaceNeeded) ==
    [h EXCEPT !.buf[ptr] = [i \in DOMAIN h.buf[ptr] |-> IF i < spaceNeeded THEN zero ELSE h.buf[ptr][i]] @@ <<>>]

\* BVH_Verbose::ConvertFrom( const BVH& original ): the node pool is sized
\* with the refittable flag the tree had before the call; 0xffffffff, the
\* root sentinel, is written as the 32-bit pattern -1
BVH_VerboseConvertFrom(v0, h0, who, original) ==
    LET ZeroNodeVerbose ==
            [aabbMin |-> VAll(0), aabbMax |-> VAll(0), left |-> 0, right |-> 0,
             triCount |-> 0, firstTri |-> 0, parent |-> 0]
        Fresh(v, h, spaceNeeded) ==
            [t |-> [v EXCEPT !.bvhNode = LastAlloc(h), !.allocatedNodes = spaceNeeded], h |-> h]
        Allocated(v, h, spaceNeeded) ==
            IF v.allocatedNodes < spaceNeeded
            THEN Fresh(v, AlignedAlloc(AlignedFree(h, who, v.bvhNode), who, spaceNeeded, "uninit"), spaceNeeded)
            ELSE [t |-> v, h |-> h]
        Copied(dst, orig, nodeIdx, parent) ==
            [dst EXCEPT ![nodeIdx].aabbMin = orig.aabbMin, ![nodeIdx].aabbMax = orig.aabbMax,
                        ![nodeIdx].triCount = orig.triCount, ![nodeIdx].parent = parent]
        RECURSIVE Convert(_, _, _, _, _)
        ConvertPop(dst, src, stack) ==
            IF stack = <<>> THEN dst
            ELSE Convert(dst, src, stack[Len(stack)], stack[Len(stack) - 1], SubSeq(stack, 1, Len(stack) - 2))
        Convert(dst, src, nodeIdx, parent, stack) ==
            IF isLeaf(src[nodeIdx])
            THEN ConvertPop([Copied(dst, src[nodeIdx], nodeIdx, parent) EXCEPT
                                ![nodeIdx].firstTri = src[nodeIdx].leftFirst], src, stack)
            ELSE Convert([Copied(dst, src[nodeIdx], nodeIdx, parent) EXCEPT
                             ![nodeIdx].left = src[nodeIdx].leftFirst,
                             ![nodeIdx].right = src[nodeIdx].leftFirst + 1],
                         src, src[nodeIdx].leftFirst, nodeIdx,
                         stack \o <<nodeIdx, src[nodeIdx].leftFirst + 1>>)
        ConvertIn(r, spaceNeeded) ==
            [t |-> [CopyBasePropertiesFrom(r.t, original) EXCEPT
                        !.verts = original.verts, !.fragment = original.fragment,
                        !.triIdx = original.triIdx, !.usedNodes = original.usedNodes],
             h |-> [r.h EXCEPT !.buf[r.t.bvhNode] =
                        Convert([Memset(r.h, r.t.bvhNode, ZeroNodeVerbose, spaceNeeded).buf[r.t.bvhNode]
                                    EXCEPT ![0].parent = -1],
                                r.h.buf[original.bvhNode], 0, -1, <<>>)]]
    IN  ConvertIn(Allocated(v0, h0, original.triCount * (IF v0.refittable THEN 2 ELSE 3)),
                  original.triCount * (IF v0.refittable THEN 2 ELSE 3))

\* BVH::ConvertFrom( const BVH_Verbose& original ): a pool that is too small
\* is replaced by one of 2 * triCount nodes, triCount being the count of the
\* receiving tree before the call
BVHConvertFrom(t0, h0, who, original) ==
    LET Fresh(t, h, spaceNeeded) ==
            [t |-> [t EXCEPT !.bvhNode = LastAlloc(h), !.allocatedNodes = spaceNeeded], h |-> h]
        Allocated(t, h, spaceNeeded) ==
            IF t.allocatedNodes < spaceNeeded
            THEN Fresh(t, AlignedAlloc(AlignedFree(h, who, t.bvhNode), who, t.triCount * 2, UninitNode),
                       spaceNeeded)
            ELSE [t |-> t, h |-> h]
        Boxed(dst, orig, dstNodeIdx) ==
            [dst EXCEPT ![dstNodeIdx].aabbMin = orig.aabbMin, ![dstNodeIdx].aabbMax = orig.aabbMax]
        RECURSIVE Convert(_, _, _, _, _, _)
        ConvertPop(dst, src, newNodePtr, stack) ==
            IF stack = <<>> THEN dst
            ELSE Convert(dst, src, stack[Len(stack)][1], stack[Len(stack)][2], newNodePtr,
                         SubSeq(stack, 1, Len(stack) - 1))
        Convert(dst, src, srcNodeIdx, dstNodeIdx, newNodePtr, stack) ==
            IF src[srcNodeIdx].triCount > 0
            THEN ConvertPop([Boxed(dst, src[srcNodeIdx], dstNodeIdx) EXCEPT
                                ![dstNodeIdx].triCount = src[srcNodeIdx].triCount,
                                ![dstNodeIdx].leftFirst = src[srcNodeIdx].firstTri],
                            src, newNodePtr, stack)
            ELSE Convert([Boxed(dst, src[srcNodeIdx], dstNodeIdx) EXCEPT ![dstNodeIdx].leftFirst = newNodePtr],
                         src, src[srcNodeIdx].left, newNodePtr, newNodePtr + 2,
                         Append(stack, <<src[srcNodeIdx].right, newNodePtr + 1>>))
        ConvertIn(r, spaceNeeded) ==
            [t |-> [CopyBasePropertiesFrom(r.t, original) EXCEPT
                        !.verts = original.verts, !.triIdx = original.triIdx,
                        !.usedNodes = original.usedNodes],
             h |-> [r.h EXCEPT !.buf[r.t.bvhNode] =
                        Convert(Memset(r.h, r.t.bvhNode, ZeroNode, spaceNeeded).buf[r.t.bvhNode],
                                r.h.buf[original.bvhNode], 0, 0, 2, <<>>)]]
    IN  ConvertIn(Allocated(t0, h0, original.usedNodes), original.usedNodes)

\* the memset of BVH::ConvertFrom stays inside the node pool
ConvertFits(t, original) ==
    IF t.allocatedNodes < original.usedNodes THEN original.usedNodes <= t.triCount * 2
    ELSE original.usedNodes <= t.allocatedNodes

\* BVH::Build( const bvhvec4slice& vertices ) with its fatal checks: exit( 1 )
\* leaves tree and heap as they are
BuildCall(t, h, who, vertices) ==
    IF vertices.count = 0 THEN [exit |-> TRUE, t |-> t, h |-> h]
    ELSE IF ~(t.allocatedNodes < 2 * (vertices.count \div 3)) /\ ~t.rebuildable
    THEN [exit |-> TRUE, t |-> t, h |-> h]
    ELSE IF t.allocatedNodes < 2 * (vertices.count \div 3) /\ vertices.data = 0 /\ t.fragment = 0
    THEN [exit |-> TRUE, t |-> t, h |-> h]
    ELSE [exit |-> FALSE] @@ BuildBody(t, h, who, vertices)

\* BVH::~BVH and BVH_Verbose::~BVH_Verbose
DestroyBVH(t, h, who) == AlignedFree(AlignedFree(AlignedFree(h, who, t.bvhNode), who, t.triIdx), who, t.fragment)
DestroyBVH_Verbose(v, h, who) == AlignedFree(h, who, v.bvhNode)

(***************************************************************************)
(* BVH8 and BVH8_CWBVH: the 8-wide tree collapsed from a BVH, and the      *)
(* compressed wide tree of Ylitie et al. encoded from the 8-wide tree.     *)
(***************************************************************************)

\* a BVH8 after its constructor
NewBVH8 ==
    [bvh8Node |-> 0, bvh |-> NewBVH, ownBVH |-> TRUE,
     rebuildable |-> TRUE, refittable |-> TRUE, frag_min_flipped |-> FALSE,
     may_have_holes |-> FALSE, bvh_over_aabbs |-> FALSE,
     allocatedNodes |-> 0, usedNodes |-> 0, triCount |-> 0, idxCount |-> 0]

\* the node loop of BVH8::ConvertFrom stays inside the pool of triCount * 2
\* nodes
Convert8Fits(w, original) ==
    IF w.allocatedNodes < original.triCount * 2 THEN original.usedNodes <= original.triCount * 2
    ELSE original.usedNodes <= w.allocatedNodes

BVH8ConvertFrom(w0, h0, who0, original0) ==
    LET ZeroNode8 ==
            [aabbMin |-> VAll(0), aabbMax |-> VAll(0), firstTri |-> 0, triCount |-> 0,
             child |-> [k \in 0 .. 7 |-> 0], childCount |-> 0]
        \* the 8-wide node made from node orig of the original
        Node8Of(node8, orig) ==
            IF isLeaf(orig)
            THEN [node8 EXCEPT !.aabbMin = orig.aabbMin, !.aabbMax = orig.aabbMax,
                               !.triCount = orig.triCount, !.firstTri = orig.leftFirst]
            ELSE [node8 EXCEPT !.aabbMin = orig.aabbMin, !.aabbMax = orig.aabbMax,
                               !.child = [k \in 0 .. 7 |-> IF k < 2 THEN orig.leftFirst + k ELSE @[k]],
                               !.childCount = 2]
        \* the child a node adopts next: the first of the interior children that
        \* fit with the greatest area, -1 if there is none
        ChildSA(nodes8, n, i) == SA(nodes8[nodes8[n].child[i]].aabbMin, nodes8[nodes8[n].child[i]].aabbMax)
        Adoptable(nodes8, n) ==
            {i \in 0 .. nodes8[n].childCount - 1 :
                /\ ~isLeaf(nodes8[nodes8[n].child[i]])
                /\ nodes8[n].childCount - 1 + nodes8[nodes8[n].child[i]].childCount <= 8
                /\ ChildSA(nodes8, n, i) > 0}
        BestChild(nodes8, n) ==
            IF Adoptable(nodes8, n) = {} THEN -1
            ELSE CHOOSE i \in Adoptable(nodes8, n) : \A j \in Adoptable(nodes8, n) :
                     \/ ChildSA(nodes8, n, j) < ChildSA(nodes8, n, i)
                     \/ ChildSA(nodes8, n, j) = ChildSA(nodes8, n, i) /\ i <= j
        Adopted(node, child, i) ==
            [node EXCEPT !.child = [k \in 0 .. 7 |->
                                       IF k = i THEN child.child[0]
                                       ELSE IF k >= node.childCount /\ k < node.childCount + child.childCount - 1
                                            THEN child.child[k - node.childCount + 1]
                                            ELSE node.child[k]],
                         !.childCount = node.childCount + child.childCount - 1]
        RECURSIVE Adopt(_, _)
        AdoptBest(nodes8, n, bestChild) ==
            IF bestChild = -1 THEN nodes8
            ELSE Adopt([nodes8 EXCEPT ![n] = Adopted(nodes8[n], nodes8[nodes8[n].child[bestChild]], bestChild)], n)
        Adopt(nodes8, n) ==
            IF nodes8[n].childCount < 8 THEN AdoptBest(nodes8, n, BestChild(nodes8, n)) ELSE nodes8
        \* the interior children of node n, in the order of their slots
        InteriorChildren(nodes8, n) ==
            LET interior(c) == ~isLeaf(nodes8[c])
            IN  SelectSeq([k \in 1 .. nodes8[n].childCount |-> nodes8[n].child[k - 1]], interior)
        RECURSIVE Collapse(_, _, _)
        CollapseNext(nodes8, stack) ==
            IF stack = <<>> THEN nodes8 ELSE Collapse(nodes8, Top(stack), Popped(stack))
        CollapseChildren(nodes8, n, stack) == CollapseNext(nodes8, stack \o InteriorChildren(nodes8, n))
        Collapse(nodes8, n, stack) == CollapseChildren(Adopt(nodes8, n), n, stack)
        \* the node pool of this BVH8: triCount * 2 nodes, for the leaves that
        \* BVH8_CWBVH::ConvertFrom may split, the first spaceNeeded set to zero
        ResetNodePool8(w, h, who, spaceNeeded) ==
            IF w.allocatedNodes < spaceNeeded
            THEN [t |-> [w EXCEPT !.bvh8Node = LastAlloc(h) + 1, !.allocatedNodes = spaceNeeded],
                  h |-> AlignedAlloc(AlignedFree(h, who, w.bvh8Node), who, spaceNeeded, ZeroNode8)]
            ELSE [t |-> w,
                  h |-> [h EXCEPT !.buf[w.bvh8Node] =
                            [i \in DOMAIN @ |-> IF i < spaceNeeded THEN ZeroNode8 ELSE @[i]]]]
        \* one node per node of the original, except the unused node 1
        FirstNodes(pool, original, nodes) ==
            [i \in DOMAIN pool |->
                IF i < original.usedNodes /\ i # 1 THEN Node8Of(pool[i], nodes[i]) ELSE pool[i]]
        StoreNodes8(r, original, nodes8) ==
            [t |-> [CopyBasePropertiesFrom(r.t, original) EXCEPT !.usedNodes = original.usedNodes],
             h |-> [r.h EXCEPT !.buf[r.t.bvh8Node] = nodes8]]
        Converted(r, original, nodes) ==
            StoreNodes8(r, original, Collapse(FirstNodes(r.h.buf[r.t.bvh8Node], original, nodes), 0, <<0>>))
    IN  Converted(ResetNodePool8([w0 EXCEPT !.ownBVH = FALSE, !.bvh = original0], h0, who0,
                                 original0.triCount * 2),
                  original0, h0.buf[original0.bvhNode])

\* BVH8::SplitBVH8Leaf: a leaf of more than maxPrims primitives becomes an
\* interior node over new leaves at the end of the node pool
RECURSIVE SplitBVH8Leaf(_, _, _, _)
SplitBVH8Leaf(b8, h, nodeIdx, maxPrims) ==
    LET triIdx == h.buf[b8.bvh.triIdx]
        fragment == h.buf[b8.bvh.fragment]
        fragMinFix == IF b8.frag_min_flipped THEN -1 ELSE 1
        firstChild == b8.usedNodes
        \* share with new sibling nodes
        RECURSIVE Share(_, _, _)
        Share(nodes, used, nextChild) ==
            IF nodes[firstChild].triCount > maxPrims /\ nextChild < 8
            THEN Share([nodes EXCEPT ![nodeIdx].child[nextChild] = used,
                                     ![used].triCount = maxPrims,
                                     ![used].firstTri = nodes[firstChild].firstTri
                                                        + nodes[firstChild].triCount - maxPrims,
                                     ![firstChild].triCount = @ - maxPrims],
                       used + 1, nextChild + 1)
            ELSE [nodes |-> nodes, used |-> used]
        FragsOf(c) == {fragment[triIdx[c.firstTri + j]] : j \in 0 .. c.triCount - 1}
        Lo(c, a) == SetMin({BVH_FAR} \cup {f.bmin[a] * fragMinFix : f \in FragsOf(c)})
        Hi(c, a) == SetMax({-BVH_FAR} \cup {f.bmax[a] : f \in FragsOf(c)})
        Bounded(node, c) ==
            IF ~b8.refittable THEN [c EXCEPT !.aabbMin = node.aabbMin, !.aabbMax = node.aabbMax]
            ELSE [c EXCEPT !.aabbMin = <<Lo(c, 1), Lo(c, 2), Lo(c, 3)>>,
                           !.aabbMax = <<Hi(c, 1), Hi(c, 2), Hi(c, 3)>>]
        Finish(r) ==
            [t |-> [b8 EXCEPT !.usedNodes = r.used],
             h |-> [h EXCEPT !.buf[b8.bvh8Node] =
                       [i \in DOMAIN r.nodes |->
                           IF i = nodeIdx THEN [r.nodes[i] EXCEPT !.triCount = 0]
                           ELSE IF i \in firstChild .. r.used - 1 THEN Bounded(r.nodes[nodeIdx], r.nodes[i])
                           ELSE r.nodes[i]]]]
        \* recurse; should be rare
        Recurse(r) ==
            IF r.h.buf[b8.bvh8Node][firstChild].triCount > maxPrims
            THEN SplitBVH8Leaf(r.t, r.h, firstChild, maxPrims) ELSE r
        Split(nodes) ==
            Recurse(Finish(Share([nodes EXCEPT ![nodeIdx].child[0] = firstChild,
                                               ![firstChild].triCount = nodes[nodeIdx].triCount,
                                               ![firstChild].firstTri = nodes[nodeIdx].firstTri],
                                 firstChild + 1, 1)))
    IN  IF h.buf[b8.bvh8Node][nodeIdx].triCount <= maxPrims THEN [t |-> b8, h |-> h]
        ELSE Split(h.buf[b8.bvh8Node])

\* a reordering that moves the children one by one inside the array they are
\* read from
ReorderInPlace(child, assignment) ==
    LET RECURSIVE Move(_, _)
        Move(c, i) == IF i = 8 THEN c ELSE Move([c EXCEPT ![assignment[i]] = c[i]], i + 1)
    IN  Move(child, 0)

\* the children of a node in their slots: child i of the copy oldNode goes
\* to slot assignment[i]
ReorderChildren(child, assignment) ==
    [k \in 0 .. 7 |-> child[CHOOSE i \in 0 .. 7 : assignment[i] = k]]

\* a BVH8_CWBVH after its constructor
NewBVH8_CWBVH ==
    [bvh8Data |-> 0, bvh8Tris |-> 0, allocatedBlocks |-> 0, usedBlocks |-> 0,
     bvh8 |-> NewBVH8, ownBVH8 |-> TRUE,
     rebuildable |-> TRUE, refittable |-> TRUE, frag_min_flipped |-> FALSE,
     may_have_holes |-> FALSE, bvh_over_aabbs |-> FALSE,
     allocatedNodes |-> 0, usedNodes |-> 0, triCount |-> 0, idxCount |-> 0]

\* BVH8_CWBVH::ConvertFrom( BVH8& ). bvh8Data holds one record per node of
\* five blocks; ub is what the cast of ceilf( log2f( 0 ) ) to int8_t yields
\* on an axis of zero extent, which the language leaves undefined
BVH8_CWBVHConvertFrom(c0, h0, who, original, ub) ==
    LET ZeroData ==
            [lo |-> VAll(0), e |-> VAll(0), imask |-> 0, childBaseIndex |-> 0, triangleBaseIndex |-> 0,
             meta |-> [i \in 0 .. 7 |-> 0], qlo |-> [i \in 0 .. 7 |-> VAll(0)],
             qhi |-> [i \in 0 .. 7 |-> VAll(0)]]
        \* allocate memory, set the blocks in use to zero
        Allocated(c, h, spaceNeeded) ==
            IF spaceNeeded > c.allocatedBlocks
            THEN [t |-> [c EXCEPT !.bvh8Data = LastAlloc(h) + 1, !.bvh8Tris = LastAlloc(h) + 2,
                                  !.allocatedBlocks = spaceNeeded],
                  h |-> AlignedAlloc(AlignedAlloc(h, who, spaceNeeded \div 5, "uninit"),
                                     who, c.bvh8.idxCount * 4, "uninit")]
            ELSE [t |-> c, h |-> h]
        Cleared(r, spaceNeeded) ==
            [t |-> CopyBasePropertiesFrom(r.t, r.t.bvh8),
             h |-> [r.h EXCEPT
                       !.buf[r.t.bvh8Data] =
                           [i \in DOMAIN @ |-> IF i < spaceNeeded \div 5 THEN ZeroData ELSE @[i]],
                       !.buf[r.t.bvh8Tris] =
                           [i \in DOMAIN @ |-> IF i < r.t.bvh8.idxCount * 3 THEN <<0, 0, 0, 0>> ELSE @[i]]],
             stack |-> <<<<0, 0>>>>, nodeDataPtr |-> 5, triDataPtr |-> 0]
        \* the leaves among the children of node n are split to three primitives
        RECURSIVE SplitChildren(_, _, _)
        SplitChild(s, n, i, r) == SplitChildren([s EXCEPT !.t.bvh8 = r.t, !.h = r.h], n, i + 1)
        SplitChildren(s, n, i) ==
            IF i = 8 THEN s
            ELSE IF s.h.buf[s.t.bvh8.bvh8Node][n].child[i] = 0 THEN SplitChildren(s, n, i + 1)
            ELSE SplitChild(s, n, i, SplitBVH8Leaf(s.t.bvh8, s.h, s.h.buf[s.t.bvh8.bvh8Node][n].child[i], 3))
        \* greedy child node ordering: twice the cost of child i in slot s
        Centre(node) == <<node.aabbMin[1] + node.aabbMax[1], node.aabbMin[2] + node.aabbMax[2],
                          node.aabbMin[3] + node.aabbMax[3]>>
        Sign(bit) == IF bit = 1 THEN -1 ELSE 1
        Costs(nodes, n) ==
            [p \in (0 .. 7) \X (0 .. 7) |->
                IF nodes[n].child[p[2]] = 0 THEN BVH_FAR
                ELSE Dot(VSub(Centre(nodes[nodes[n].child[p[2]]]), Centre(nodes[n])),
                         <<Sign((p[1] \div 4) % 2), Sign((p[1] \div 2) % 2), Sign(p[1] % 2)>>)]
        Candidates(assignment, cost) ==
            {p \in DOMAIN cost :
                /\ assignment[p[2]] = -1 /\ cost[p] < BVH_FAR
                /\ \A i \in 0 .. 7 : assignment[i] # p[1]}
        First(cand, cost) ==
            CHOOSE p \in cand : \A q \in cand :
                \/ cost[p] < cost[q]
                \/ cost[p] = cost[q] /\ (p[1] < q[1] \/ (p[1] = q[1] /\ p[2] <= q[2]))
        RECURSIVE Greedy(_, _)
        Take(assignment, cost, p) == Greedy([assignment EXCEPT ![p[2]] = p[1]], cost)
        Greedy(assignment, cost) ==
            IF Candidates(assignment, cost) = {} THEN assignment
            ELSE Take(assignment, cost, First(Candidates(assignment, cost), cost))
        \* the children left over take the empty slots in order
        RECURSIVE Rest(_, _)
        Rest(assignment, i) ==
            IF i = 8 THEN assignment
            ELSE IF assignment[i] # -1 THEN Rest(assignment, i + 1)
            ELSE Rest([assignment EXCEPT ![i] = SetMin({k \in 0 .. 7 : \A j \in 0 .. 7 : assignment[j] # k})],
                      i + 1)
        Reordered(s, n, assignment) ==
            [s EXCEPT !.h.buf[s.t.bvh8.bvh8Node][n].child = ReorderChildren(@, assignment)]
        \* quantization parameters: the least e with 2^e >= extent / 255
        Holds(ext, e) == IF e >= 0 THEN ext <= 255 * Unit * 2^e ELSE ext * 2^(-e) <= 255 * Unit
        Exponent(ext) == IF ext = 0 THEN ub ELSE SetMin({e \in -15 .. 8 : Holds(ext, e)})
        Exponents(node) ==
            <<Exponent(node.aabbMax[1] - node.aabbMin[1]), Exponent(node.aabbMax[2] - node.aabbMin[2]),
              Exponent(node.aabbMax[3] - node.aabbMin[3])>>
        Floor(d, e) ==
            IF d = 0 THEN 0
            ELSE IF e >= 0 THEN (d \div (Unit * 2^e)) % 256 ELSE ((d * 2^(-e)) \div Unit) % 256
        Ceil(d, e) ==
            IF d = 0 THEN 0
            ELSE IF e >= 0 THEN ((d + Unit * 2^e - 1) \div (Unit * 2^e)) % 256
            ELSE ((d * 2^(-e) + Unit - 1) \div Unit) % 256
        Quantized(s, addr, i, e, lo, hi) ==
            [s EXCEPT !.h.buf[s.t.bvh8Data][addr \div 5].qlo[i] =
                          <<Floor(lo[1], e[1]), Floor(lo[2], e[2]), Floor(lo[3], e[3])>>,
                      !.h.buf[s.t.bvh8Data][addr \div 5].qhi[i] =
                          <<Ceil(hi[1], e[1]), Ceil(hi[2], e[2]), Ceil(hi[3], e[3])>>]
        \* interior node, set params and push onto stack
        Interior(s, addr, i, c) ==
            [s EXCEPT !.childBaseIndex = IF s.internalChildCount = 0 THEN s.nodeDataPtr \div 5 ELSE @,
                      !.internalChildCount = @ + 2,
                      !.nodeDataPtr = @ + 5,
                      !.imask = @ + 2^i,
                      !.h.buf[s.t.bvh8Data][addr \div 5].meta[i] = 32 + 24 + i,
                      !.stack = Append(@, <<c, s.nodeDataPtr>>)]
        \* leaf node: its triangles go to bvh8Tris, the primitive index in w of
        \* the first vertex
        Unary(tcount) == IF tcount = 1 THEN 1 ELSE IF tcount = 2 THEN 3 ELSE 7
        Tcount(child) == IF child.triCount < 3 THEN child.triCount ELSE 3
        Vertex(s, primitiveIndex, k) ==
            Append(s.h.buf[s.t.bvh8.bvh.verts.data][primitiveIndex * 3 + k],
                   IF k = 0 THEN primitiveIndex ELSE "w")
        TriData(s, child, k) ==
            Vertex(s, s.h.buf[s.t.bvh8.bvh.triIdx][child.firstTri + k \div 3], k % 3)
        Leaf(s, addr, i, child) ==
            [s EXCEPT !.triangleBaseIndex = IF s.leafChildTriCount = 0 THEN s.triDataPtr ELSE @,
                      !.h.buf[s.t.bvh8Data][addr \div 5].meta[i] =
                          (Unary(Tcount(child)) * 32 + s.leafChildTriCount) % 256,
                      !.leafChildTriCount = @ + Tcount(child),
                      !.h.buf[s.t.bvh8Tris] =
                          [k \in DOMAIN @ |->
                              IF k \in s.triDataPtr .. s.triDataPtr + 3 * Tcount(child) - 1
                              THEN TriData(s, child, k - s.triDataPtr) ELSE @[k]],
                      !.triDataPtr = @ + 3 * Tcount(child)]
        \* encode output
        EncodeChild(s, addr, i, e, c, child, lo) ==
            IF child.triCount > 0
            THEN Leaf(Quantized(s, addr, i, e, VSub(child.aabbMin, lo), VSub(child.aabbMax, lo)),
                      addr, i, child)
            ELSE Interior(Quantized(s, addr, i, e, VSub(child.aabbMin, lo), VSub(child.aabbMax, lo)),
                          addr, i, c)
        RECURSIVE Encode(_, _, _, _, _, _)
        Encode(s, nodes, n, addr, i, e) ==
            IF i = 8 THEN s
            ELSE IF nodes[n].child[i] = 0 THEN Encode(s, nodes, n, addr, i + 1, e)
            ELSE Encode(EncodeChild(s, addr, i, e, nodes[n].child[i], nodes[nodes[n].child[i]],
                                    nodes[n].aabbMin),
                        nodes, n, addr, i + 1, e)
        Header(s, node, addr, e) ==
            [s EXCEPT !.h.buf[s.t.bvh8Data][addr \div 5].lo = node.aabbMin,
                      !.h.buf[s.t.bvh8Data][addr \div 5].e = e,
                      !.h.buf[s.t.bvh8Data][addr \div 5].imask = s.imask,
                      !.h.buf[s.t.bvh8Data][addr \div 5].childBaseIndex = s.childBaseIndex,
                      !.h.buf[s.t.bvh8Data][addr \div 5].triangleBaseIndex = s.triangleBaseIndex]
        Encoded(s, nodes, n, addr, e) ==
            Header(Encode([s EXCEPT !.internalChildCount = 0, !.leafChildTriCount = 0,
                                    !.childBaseIndex = 0, !.triangleBaseIndex = 0, !.imask = 0],
                          nodes, n, addr, 0, e),
                   nodes[n], addr, e)
        Ordered(s, n, addr) ==
            Encoded(s, s.h.buf[s.t.bvh8.bvh8Node], n, addr, Exponents(s.h.buf[s.t.bvh8.bvh8Node][n]))
        Slotted(s, n, addr) ==
            Ordered(Reordered(s, n, Rest(Greedy([i \in 0 .. 7 |-> -1],
                                                Costs(s.h.buf[s.t.bvh8.bvh8Node], n)), 0)),
                    n, addr)
        Node(s, top) == Slotted(SplitChildren([s EXCEPT !.stack = Popped(@)], top[1], 0), top[1], top[2])
        \* start conversion
        RECURSIVE Convert(_)
        Convert(s) == IF s.stack = <<>> THEN s ELSE Convert(Node(s, Top(s.stack)))
        Done(s) == [exit |-> FALSE, t |-> [s.t EXCEPT !.usedBlocks = s.nodeDataPtr], h |-> s.h]
        Start(c) ==
            IF h0.buf[c.bvh8.bvh8Node][0].triCount > 0 THEN [exit |-> TRUE, t |-> c, h |-> h0]
            ELSE Done(Convert(Cleared(Allocated(c, h0, c.bvh8.triCount * 2 * 5), c.bvh8.triCount * 2 * 5)
                              @@ [internalChildCount |-> 0, leafChildTriCount |-> 0, childBaseIndex |-> 0,
                                  triangleBaseIndex |-> 0, imask |-> 0]))
    IN  Start([c0 EXCEPT !.ownBVH8 = FALSE, !.bvh8 = original])

(***************************************************************************)
(* Input scenes: triangles on whole world units.                           *)
(***************************************************************************)
MaxPrims == 3

P(x, y, z) == <<x * Unit, y * Unit, z * Unit>>

TriPool ==
    { <<P(0, 0, 0), P(1, 0, 0), P(0, 1, 0)>>,
      <<P(3, 0, 0), P(4, 0, 0), P(4, 1, 0)>>,
      <<P(0, 0, 0), P(4, 0, 0), P(4, 1, 0)>>,
      <<P(0, 0, 1), P(0, 1, 2), P(1, 0, 2)>>,
      <<P(1, 3, 0), P(2, 4, 0), P(1, 4, 1)>>,
      <<P(0, 0, 0), P(4, 4, 0), P(0, 4, 0)>> }

RECURSIVE Flatten(_)
Flatten(tris) == IF tris = <<>> THEN <<>> ELSE tris[1] \o Flatten(Tail(tris))

SmallScenes == UNION {{Flatten(q) : q \in [1 .. n -> TriPool]} : n \in 1 .. MaxPrims}

\* scenes of eight triangles, the fewest for which BuildHQ has the slack to
\* split a straddling fragment: each slot holds a small triangle or a
\* triangle that spans the scene
Small(x, y) == <<P(x, y, 0), P(x + 1, y, 0), P(x, y + 1, 0)>>

Slot ==
    << {Small(0, 0)},
       {Small(0, 3)},
       {Small(7, 0)},
       {Small(7, 3), Small(5, 3)},
       {Small(3, 0), <<P(0, 0, 0), P(8, 0, 0), P(8, 1, 0)>>},
       {Small(4, 3), <<P(0, 3, 0), P(8, 4, 0), P(0, 4, 0)>>},
       {Small(2, 1), <<P(0, 0, 0), P(8, 4, 0), P(0, 4, 0)>>},
       {Small(6, 2), <<P(4, 0, 0), P(5, 0, 0), P(4, 4, 1)>>} >>

WideScenes ==
    {Flatten(<<a, b, c, d, e, f, g, h>>) :
        a \in Slot[1], b \in Slot[2], c \in Slot[3], d \in Slot[4],
        e \in Slot[5], f \in Slot[6], g \in Slot[7], h \in Slot[8]}

\* scenes with a leaf of four primitives: four triangles on one centroid,
\* which no split plane separates, and one triangle apart
FatScenes ==
    {Flatten(<<t, t, t, t, u>>) : t \in {<<P(0, 0, 0), P(1, 0, 0), P(0, 1, 0)>>},
                                  u \in {<<P(3, 0, 0), P(4, 0, 0), P(4, 1, 0)>>,
                                         <<P(1, 3, 0), P(2, 4, 0), P(1, 4, 1)>>}}

Scenes == SmallScenes \cup WideScenes

\* a vertex array of the caller, as the slice handed to a builder
VertexArray(scene) == [i \in 0 .. Len(scene) - 1 |-> scene[i + 1]]

\* the rays the caller traces
Rays ==
    { Ray(P(0, 0, -1), <<0, 0, 1>>, Far), Ray(P(0, 0, -1), <<0, 0, 1>>, Frac(3, 2)),
      Ray(P(0, 0, -1), <<0, 0, 1>>, Frac(1, 1)), Ray(P(1, 0, -1), <<0, 0, 1>>, Far),
      Ray(P(1, 2, -1), <<0, 0, 1>>, Far), Ray(P(0, 0, -2), <<1, 2, 2>>, Far),
      Ray(P(4, 1, 3), <<-1, 0, -1>>, Far), Ray(P(2, 0, 5), <<0, 0, -1>>, Frac(6, 1)),
      Ray(P(0, 0, 1), <<0, 0, 1>>, Far), Ray(P(-1, 0, 2), <<1, 0, 0>>, Far),
      Ray(P(7, 0, -1), <<0, 0, 1>>, Far), Ray(P(5, 4, -2), <<-2, -1, 1>>, Far) }

\* the packets the caller traces: 16 x 16 sample positions seen from one
\* origin, ray i at position ( X( i ), Y( i ) ) of the grid
TileX(i) == ((i \div 16) % 4) * 4 + (i % 4)
TileY(i) == ((i \div 16) \div 4) * 4 + ((i % 16) \div 4)
RowX(i) == i % 16
RowY(i) == i \div 16
Tiled(origin, c) ==
    [i \in 0 .. 255 |-> Ray(origin, <<c[1] + TileX(i) * c[4], c[2] - TileY(i) * c[4], c[3]>>, Far)] @@ <<>>
RowMajor(origin, c) ==
    [i \in 0 .. 255 |-> Ray(origin, <<c[1] + RowX(i) * c[4], c[2] - RowY(i) * c[4], c[3]>>, Far)] @@ <<>>
Packets ==
    { Tiled(P(2, 2, -4), <<-8, 8, 4, 1>>), Tiled(P(0, 0, -4), <<0, 0, 16, 1>>),
      Tiled(P(4, 2, -2), <<-15, 15, 8, 2>>), RowMajor(P(2, 2, -4), <<-8, 8, 4, 1>>) }

VARIABLES heap, bvh, op, old, refs, moved, bvh4, bvh4_cpu, ray, packet, verbose, copy, call, gone, bvh8, cwbvh, seed, runs, nextFrag, slices
vars == <<heap, bvh, op, old, refs, moved, bvh4, bvh4_cpu, ray, packet, verbose, copy, call, gone, bvh8, cwbvh, seed, runs, nextFrag, slices>>

\* no packet traced yet
NoPacket == [op |-> "new", in |-> <<>>, out |-> <<>>]

\* no second call of Build yet
NoCall == [count |-> -1, heap |-> EmptyHeap]

\* no ray traced yet
NoRay == [op |-> "new", in |-> Ray(P(0, 0, 0), VAll(0), Far), out |-> Ray(P(0, 0, 0), VAll(0), Far),
          occluded |-> FALSE, stackPtr |-> 0]

\* the static seed of BVH_Verbose::Optimize, 0x12345678, as its 32 bits:
\* seed[k] is the bit of weight 2^(k - 1)
FirstSeed == [k \in 1 .. 32 |-> IF k <= 16 THEN (22136 \div 2 ^ (k - 1)) % 2
                                ELSE (4660 \div 2 ^ (k - 17)) % 2] @@ <<>>

\* the program before the first build: the caller holds a vertex array
Start(scenes) ==
    /\ \E scene \in scenes : heap = AllocArray(EmptyHeap, "caller", VertexArray(scene))
    /\ bvh = NewBVH
    /\ op = "new"
    /\ old = <<>>
    /\ refs = <<>>
    /\ moved = FALSE
    /\ bvh4 = NewBVH4
    /\ bvh4_cpu = NewBVH4_CPU
    /\ ray = NoRay
    /\ packet = NoPacket
    /\ verbose = NewBVH_Verbose
    /\ copy = NewBVH
    /\ call = NoCall
    /\ gone = {}
    /\ bvh8 = NewBVH8
    /\ cwbvh = NewBVH8_CWBVH
    /\ seed = FirstSeed
    /\ runs = <<>>
    /\ nextFrag = 0
    /\ slices = <<>>

Init == Start(Scenes)

\* the slice over the whole vertex array of the caller
CallerSlice == [data |-> 1, count |-> Cardinality(DOMAIN heap.buf[1])]

Built == op \in {"Build", "BuildQuick", "BuildAVX", "BuildHQ"}

Build ==
    /\ op = "new"
    /\ \E r \in {BuildBody(bvh, heap, "bvh", CallerSlice)} :
          bvh' = r.t /\ heap' = r.h /\ refs' = r.h.buf[r.t.triIdx]
    /\ op' = "Build"
    /\ old' = <<>>
    /\ UNCHANGED <<moved, bvh4, bvh4_cpu, ray, packet, verbose, copy, call, gone, bvh8, cwbvh, seed, runs, nextFrag, slices>>

BuildQuick ==
    /\ op = "new"
    /\ \E r \in {BuildQuickBody(bvh, heap, "bvh", CallerSlice)} :
          bvh' = r.t /\ heap' = r.h /\ refs' = r.h.buf[r.t.triIdx]
    /\ op' = "BuildQuick"
    /\ old' = <<>>
    /\ UNCHANGED <<moved, bvh4, bvh4_cpu, ray, packet, verbose, copy, call, gone, bvh8, cwbvh, seed, runs, nextFrag, slices>>

BuildAVX ==
    /\ op = "new"
    /\ \E r \in {BuildAVXBody(bvh, heap, "bvh", CallerSlice)} :
          bvh' = r.t /\ heap' = r.h /\ refs' = r.h.buf[r.t.triIdx]
    /\ op' = "BuildAVX"
    /\ old' = <<>>
    /\ UNCHANGED <<moved, bvh4, bvh4_cpu, ray, packet, verbose, copy, call, gone, bvh8, cwbvh, seed, runs, nextFrag, slices>>

BuildHQ ==
    /\ op = "new"
    /\ \E r \in {BuildHQBody(bvh, heap, "bvh", CallerSlice)} :
          /\ bvh' = r.t /\ heap' = r.h /\ refs' = r.refs
          /\ nextFrag' = r.nextFrag /\ slices' = r.slices
          /\ op' = IF r.oob THEN "overflow" ELSE "BuildHQ"
    /\ old' = <<>>
    /\ UNCHANGED <<moved, bvh4, bvh4_cpu, ray, packet, verbose, copy, call, gone, bvh8, cwbvh, seed, runs>>

\* Refit of a built tree; a tree that is not refittable or may have holes
\* ends the program
Refit ==
    /\ op \notin {"new", "exit", "null read", "use after free", "division by zero", "wild read", "no return"}
    /\ IF ~bvh.refittable \/ bvh.bvhNode = 0 \/ bvh.may_have_holes
       THEN op' = "exit" /\ UNCHANGED <<heap, bvh, old, refs, moved, bvh4, bvh4_cpu, ray, packet, verbose, copy, call, gone, bvh8, cwbvh, seed, runs, nextFrag, slices>>
       ELSE \* with verts the null slice the reads of the leaf loop are undefined:
            \* they fault, or they yield what lies at address 0
            /\ \E outcome \in (IF bvh.verts.data = 0 THEN {"Refit", "null read"} ELSE {"Refit"}) :
                  /\ op' = outcome
                  /\ heap' = IF outcome = "Refit" THEN RefitBody(bvh, heap) ELSE heap
            /\ old' = heap.buf[bvh.bvhNode]
            /\ UNCHANGED <<bvh, refs, moved, bvh4, bvh4_cpu, ray, packet, verbose, copy, call, gone, bvh8, cwbvh, seed, runs, nextFrag, slices>>

\* the caller animates the scene: one vertex of its array gets a new position
MovedVertices == {0, 1}
NewPositions == {P(9, 0, 0), P(0, 0, -1)}
MoveVertex ==
    /\ Built
    /\ ~moved
    /\ \E v \in MovedVertices, q \in NewPositions :
          /\ heap.buf[1][v] # q
          /\ heap' = [heap EXCEPT !.buf[1][v] = q]
    /\ moved' = TRUE
    /\ UNCHANGED <<bvh, op, old, refs, bvh4, bvh4_cpu, ray, packet, verbose, copy, call, gone, bvh8, cwbvh, seed, runs, nextFrag, slices>>

Next == Build \/ BuildQuick \/ BuildAVX \/ BuildHQ \/ Refit \/ MoveVertex
Spec == Init /\ [][Next]_vars

(***************************************************************************)
(* The caller builds a tree, converts it to the 4-wide layouts and traces  *)
(* rays through the tree and through the converted tree.                   *)
(***************************************************************************)
ConvertBVH4 ==
    /\ Built /\ bvh4.bvh4Node = 0 /\ ray = NoRay
    /\ \E r \in {BVH4ConvertFrom(bvh4, heap, "bvh4", bvh)} : bvh4' = r.t /\ heap' = r.h
    /\ UNCHANGED <<bvh, op, old, refs, moved, bvh4_cpu, ray, packet, verbose, copy, call, gone, bvh8, cwbvh, seed, runs, nextFrag, slices>>

ConvertBVH4_CPU ==
    /\ bvh4.bvh4Node # 0 /\ bvh4_cpu.bvh4Node = 0 /\ ray = NoRay
    /\ \E r \in {BVH4_CPUConvertFrom(bvh4_cpu, heap, "bvh4_cpu", bvh4)} : bvh4_cpu' = r.t /\ heap' = r.h
    /\ UNCHANGED <<bvh, op, old, refs, moved, bvh4, ray, packet, verbose, copy, call, gone, bvh8, cwbvh, seed, runs, nextFrag, slices>>

Intersect ==
    /\ Built /\ ray = NoRay
    /\ \E r \in Rays :
          \E run \in {IntersectStack(bvh, heap, r)} :
             \* a push at stack[64] or beyond writes past the array
             \E outcome \in (IF run.top > StackSize THEN {"Intersect", "stack overflow"} ELSE {"Intersect"}) :
                ray' = [NoRay EXCEPT !.op = outcome, !.in = r, !.out = run.ray, !.stackPtr = run.top]
    /\ UNCHANGED <<heap, bvh, op, old, refs, moved, bvh4, bvh4_cpu, packet, verbose, copy, call, gone, bvh8, cwbvh, seed, runs, nextFrag, slices>>

IsOccluded ==
    /\ Built /\ ray = NoRay
    /\ \E r \in Rays : ray' = [NoRay EXCEPT !.op = "IsOccluded", !.in = r, !.out = r,
                                           !.occluded = IsOccludedBody(bvh, heap, r)]
    /\ UNCHANGED <<heap, bvh, op, old, refs, moved, bvh4, bvh4_cpu, packet, verbose, copy, call, gone, bvh8, cwbvh, seed, runs, nextFrag, slices>>

IntersectBVH4_CPU ==
    /\ bvh4_cpu.bvh4Node # 0 /\ ray = NoRay
    /\ \E r \in Rays : ray' = [NoRay EXCEPT !.op = "BVH4_CPU::Intersect", !.in = r,
                                           !.out = BVH4_CPUIntersect(bvh4_cpu, heap, r)]
    /\ UNCHANGED <<heap, bvh, op, old, refs, moved, bvh4, bvh4_cpu, packet, verbose, copy, call, gone, bvh8, cwbvh, seed, runs, nextFrag, slices>>

TraceNext ==
    \/ Build \/ BuildQuick \/ BuildAVX \/ BuildHQ
    \/ ConvertBVH4 \/ ConvertBVH4_CPU
    \/ Intersect \/ IsOccluded \/ IntersectBVH4_CPU
TraceSpec == Init /\ [][TraceNext]_vars

Intersect256Rays ==
    /\ Built /\ packet = NoPacket
    /\ \E p \in Packets :
          packet' = [op |-> "Intersect256Rays", in |-> p, out |-> Intersect256RaysBody(bvh, heap, p)]
    /\ UNCHANGED <<heap, bvh, op, old, refs, moved, bvh4, bvh4_cpu, ray, verbose, copy, call, gone, bvh8, cwbvh, seed, runs, nextFrag, slices>>

PacketNext == Build \/ Intersect256Rays
PacketSpec == Init /\ [][PacketNext]_vars

\* the caller builds the tree a second time, over the first count vertices of
\* its array
BuildAgain ==
    /\ op = "Build" /\ call = NoCall /\ gone = {}
    /\ verbose = NewBVH_Verbose /\ copy = NewBVH /\ bvh4 = NewBVH4
    /\ \E count \in {0, 1, 2, 3} :
          \E r \in {BuildCall(bvh, heap, "bvh", [data |-> 1, count |-> count])} :
              /\ call' = [count |-> count, heap |-> heap]
              /\ bvh' = r.t /\ heap' = r.h
              /\ op' = IF r.exit THEN "exit" ELSE "BuildAgain"
              /\ refs' = IF r.exit THEN refs ELSE r.h.buf[r.t.triIdx]
    /\ UNCHANGED <<old, moved, bvh4, bvh4_cpu, ray, packet, verbose, copy, gone, bvh8, cwbvh, seed, runs, nextFrag, slices>>

\* a second BVH of the caller, built over the same vertices
BuildCopy ==
    /\ Built /\ call = NoCall /\ copy = NewBVH /\ "copy" \notin gone
    /\ \E r \in {BuildCall(copy, heap, "copy", CallerSlice)} : copy' = r.t /\ heap' = r.h
    /\ UNCHANGED <<bvh, op, old, refs, moved, bvh4, bvh4_cpu, ray, packet, verbose, call, gone, bvh8, cwbvh, seed, runs, nextFrag, slices>>

ConvertVerbose ==
    /\ Built /\ call = NoCall /\ verbose = NewBVH_Verbose /\ gone \cap {"bvh", "verbose"} = {}
    /\ \E r \in {BVH_VerboseConvertFrom(verbose, heap, "verbose", bvh)} : verbose' = r.t /\ heap' = r.h
    /\ UNCHANGED <<bvh, op, old, refs, moved, bvh4, bvh4_cpu, ray, packet, copy, call, gone, bvh8, cwbvh, seed, runs, nextFrag, slices>>

\* the second BVH takes the tree of the BVH_Verbose
ConvertCopy ==
    /\ verbose # NewBVH_Verbose /\ gone \cap {"copy", "verbose"} = {}
    /\ copy.triIdx # verbose.triIdx /\ ConvertFits(copy, verbose)
    /\ \E r \in {BVHConvertFrom(copy, heap, "copy", verbose)} : copy' = r.t /\ heap' = r.h
    /\ UNCHANGED <<bvh, op, old, refs, moved, bvh4, bvh4_cpu, ray, packet, verbose, call, gone, bvh8, cwbvh, seed, runs, nextFrag, slices>>

\* one of the trees of the caller goes out of scope
Destroy ==
    /\ Built /\ call = NoCall
    /\ \E who \in {"bvh", "copy", "verbose"} \ gone :
          /\ heap' = IF who = "bvh" THEN DestroyBVH(bvh, heap, who)
                     ELSE IF who = "copy" THEN DestroyBVH(copy, heap, who)
                     ELSE DestroyBVH_Verbose(verbose, heap, who)
          /\ gone' = gone \cup {who}
    /\ UNCHANGED <<bvh, op, old, refs, moved, bvh4, bvh4_cpu, ray, packet, verbose, copy, call, bvh8, cwbvh, seed, runs, nextFrag, slices>>

LifeNext ==
    Build \/ BuildAgain \/ BuildCopy \/ ConvertVerbose \/ ConvertCopy \/ ConvertBVH4 \/ ConvertBVH4_CPU \/ Destroy
LifeSpec == Init /\ [][LifeNext]_vars

(***************************************************************************)
(* The caller converts a tree from layout to layout.                       *)
(***************************************************************************)
ConvertBVH8 ==
    /\ Built /\ bvh8 = NewBVH8 /\ Convert8Fits(bvh8, bvh)
    /\ \E r \in {BVH8ConvertFrom(bvh8, heap, "bvh8", bvh)} : bvh8' = r.t /\ heap' = r.h
    /\ UNCHANGED <<bvh, op, old, refs, moved, bvh4, bvh4_cpu, ray, packet, verbose, copy, call, gone, cwbvh, seed, runs, nextFrag, slices>>

ConvertCWBVH ==
    /\ Built /\ bvh8 # NewBVH8 /\ cwbvh = NewBVH8_CWBVH
    /\ \E ub \in {-128, 0} :
          \E r \in {BVH8_CWBVHConvertFrom(cwbvh, heap, "cwbvh", bvh8, ub)} :
              /\ cwbvh' = r.t /\ heap' = r.h
              /\ op' = IF r.exit THEN "exit" ELSE op
    /\ UNCHANGED <<bvh, old, refs, moved, bvh4, bvh4_cpu, ray, packet, verbose, copy, call, gone, bvh8, seed, runs, nextFrag, slices>>

ConvertNext ==
    \/ Build \/ BuildAVX \/ BuildHQ \/ BuildCopy
    \/ ConvertVerbose \/ ConvertCopy \/ ConvertBVH4 \/ ConvertBVH4_CPU \/ ConvertBVH8 \/ ConvertCWBVH

\* the scenes the caller converts: one triangle (the root is a leaf), two and
\* three triangles apart, a leaf of four primitives, eight triangles
ConvertScenes ==
    FatScenes
    \cup {Flatten(<<a>>) : a \in {Small(0, 0)}}
    \cup {Flatten(<<a, b>>) : a \in {Small(0, 0)}, b \in {Small(3, 0), Small(0, 3)}}
    \cup {Flatten(<<a, b, c>>) : a \in {Small(0, 0)}, b \in {Small(3, 0), Small(0, 3)},
                                 c \in {Small(7, 3), <<P(0, 0, 1), P(0, 1, 2), P(1, 0, 2)>>}}
    \cup {scene \in WideScenes : /\ scene[10] = P(7, 3, 0) /\ scene[16] = P(4, 3, 0)
                                 /\ scene[19] = P(2, 1, 0) /\ scene[22] = P(6, 2, 0)}

ConvertInit == Start(ConvertScenes)

ConvertSpec == ConvertInit /\ [][ConvertNext]_vars

(***************************************************************************)
(* The caller builds one tree again and again, with any builder over any   *)
(* number of its triangles: Build( vertices, primCount ) and the like.     *)
(***************************************************************************)

\* the head of a builder: "exit" on a fatal error; "overflow" when the pool
\* is kept although the index array or the fragment array is shorter than
\* the written entries the builder fills; "build" otherwise
BuildHead(t, h, vertices, spaceNeeded, written) ==
    IF vertices.count = 0 THEN "exit"
    ELSE IF t.allocatedNodes < spaceNeeded THEN "build"
    ELSE IF ~t.rebuildable THEN "exit"
    ELSE IF \/ Cardinality(DOMAIN h.buf[t.triIdx]) < written
            \/ Cardinality(DOMAIN h.buf[t.fragment]) < written THEN "overflow"
    ELSE "build"

\* a builder that ends the program leaves the tree as it is; of a builder
\* that writes past the end of a buffer only the counters it sets before its
\* loops are modelled
NotBuilt(head, t, h, vertices, written) ==
    [t |-> IF head = "exit" THEN t
           ELSE [t EXCEPT !.verts = vertices, !.triCount = vertices.count \div 3, !.idxCount = written],
     h |-> h]

\* the caller stops building when the program has allocated MaxBuffers buffers
MaxBuffers == 6

BuildPrims ==
    /\ op = "new" \/ Built
    /\ Len(heap.buf) < MaxBuffers
    /\ \E primCount \in 1 .. (Cardinality(DOMAIN heap.buf[1]) \div 3) :
          \E vertices \in {[data |-> 1, count |-> 3 * primCount]},
             head \in {BuildHead(bvh, heap, [data |-> 1, count |-> 3 * primCount], 2 * primCount, primCount)} :
              \E r \in {IF head = "build" THEN BuildBody(bvh, heap, "bvh", vertices)
                         ELSE NotBuilt(head, bvh, heap, vertices, primCount)} :
                  /\ bvh' = r.t /\ heap' = r.h
                  /\ op' = IF head = "build" THEN "Build" ELSE head
                  /\ refs' = IF head = "build" THEN r.h.buf[r.t.triIdx] ELSE refs
    /\ UNCHANGED <<old, moved, bvh4, bvh4_cpu, ray, packet, verbose, copy, call, gone, bvh8, cwbvh, seed, runs, nextFrag, slices>>

BuildQuickPrims ==
    /\ op = "new" \/ Built
    /\ Len(heap.buf) < MaxBuffers
    /\ \E primCount \in 1 .. (Cardinality(DOMAIN heap.buf[1]) \div 3) :
          \E vertices \in {[data |-> 1, count |-> 3 * primCount]},
             head \in {BuildHead(bvh, heap, [data |-> 1, count |-> 3 * primCount], 2 * primCount, primCount)} :
              \E r \in {IF head = "build" THEN BuildQuickBody(bvh, heap, "bvh", vertices)
                         ELSE NotBuilt(head, bvh, heap, vertices, primCount)} :
                  /\ bvh' = r.t /\ heap' = r.h
                  /\ op' = IF head = "build" THEN "BuildQuick" ELSE head
                  /\ refs' = IF head = "build" THEN r.h.buf[r.t.triIdx] ELSE refs
    /\ UNCHANGED <<old, moved, bvh4, bvh4_cpu, ray, packet, verbose, copy, call, gone, bvh8, cwbvh, seed, runs, nextFrag, slices>>

BuildAVXPrims ==
    /\ op = "new" \/ Built
    /\ Len(heap.buf) < MaxBuffers
    /\ \E primCount \in 1 .. (Cardinality(DOMAIN heap.buf[1]) \div 3) :
          \E vertices \in {[data |-> 1, count |-> 3 * primCount]},
             head \in {BuildHead(bvh, heap, [data |-> 1, count |-> 3 * primCount], 2 * primCount, primCount)} :
              \E r \in {IF head = "build" THEN BuildAVXBody(bvh, heap, "bvh", vertices)
                         ELSE NotBuilt(head, bvh, heap, vertices, primCount)} :
                  /\ bvh' = r.t /\ heap' = r.h
                  /\ op' = IF head = "build" THEN "BuildAVX" ELSE head
                  /\ refs' = IF head = "build" THEN r.h.buf[r.t.triIdx] ELSE refs
    /\ UNCHANGED <<old, moved, bvh4, bvh4_cpu, ray, packet, verbose, copy, call, gone, bvh8, cwbvh, seed, runs, nextFrag, slices>>

BuildHQPrims ==
    /\ op = "new" \/ Built
    /\ Len(heap.buf) < MaxBuffers
    /\ \E primCount \in 1 .. (Cardinality(DOMAIN heap.buf[1]) \div 3) :
          \E vertices \in {[data |-> 1, count |-> 3 * primCount]},
             head \in {BuildHead(bvh, heap, [data |-> 1, count |-> 3 * primCount], 3 * primCount, primCount + primCount \div 4)} :
              \E r \in {IF head = "build" THEN BuildHQBody(bvh, heap, "bvh", vertices)
                         ELSE NotBuilt(head, bvh, heap, vertices, primCount + primCount \div 4)} :
                  /\ bvh' = r.t /\ heap' = r.h
                  /\ op' = IF head # "build" THEN head ELSE IF r.oob THEN "overflow" ELSE "BuildHQ"
                  /\ refs' = IF head = "build" THEN r.refs ELSE refs
                  /\ nextFrag' = IF head = "build" THEN r.nextFrag ELSE nextFrag
                  /\ slices' = IF head = "build" THEN r.slices ELSE slices
    /\ UNCHANGED <<old, moved, bvh4, bvh4_cpu, ray, packet, verbose, copy, call, gone, bvh8, cwbvh, seed, runs>>

RebuildNext == BuildPrims \/ BuildQuickPrims \/ BuildAVXPrims \/ BuildHQPrims

\* the scenes the caller builds over: up to three triangles
RebuildInit == Start({scene \in ConvertScenes : Len(scene) <= 9})

RebuildSpec == RebuildInit /\ [][RebuildNext]_vars

(***************************************************************************)
(* The tree a builder left behind.                                         *)
(***************************************************************************)
Nodes == heap.buf[bvh.bvhNode]
Frags == heap.buf[bvh.fragment]

\* the nodes a traversal from the root can visit: the least set of node
\* indices that holds the root and both children of each interior node in it
Children(S, nodes, used) ==
    S \cup {c \in 0 .. used - 1 :
               \E i \in S : ~isLeaf(nodes[i]) /\ c \in {nodes[i].leftFirst, nodes[i].leftFirst + 1}}
RECURSIVE Grow(_, _, _)
Grow(S, nodes, used) ==
    IF Children(S, nodes, used) = S THEN S ELSE Grow(Children(S, nodes, used), nodes, used)
Reachable == Grow({0}, Nodes, bvh.usedNodes)

\* the minimum of a fragment as stored, negated after an AVX build
FragMin(f) == IF bvh.frag_min_flipped THEN VNeg(f.bmin) ELSE f.bmin

Encloses(omin, omax, imin, imax) == \A a \in Axes : omin[a] <= imin[a] /\ imax[a] <= omax[a]

\* C1: after any builder every interior node's box encloses the boxes of both
\* children and every leaf's box encloses every fragment the leaf refers to
EnclosureHolds ==
    Built =>
        \A i \in Reachable :
            LET node == Nodes[i]
            IN  IF isLeaf(node)
                THEN \A p \in NodePos(node) :
                        Encloses(node.aabbMin, node.aabbMax, FragMin(Frags[refs[p]]), Frags[refs[p]].bmax)
                ELSE \A c \in {node.leftFirst, node.leftFirst + 1} :
                        Encloses(node.aabbMin, node.aabbMax, Nodes[c].aabbMin, Nodes[c].aabbMax)

\* a spatial split happened: some leaf refers to a fragment made by clipping
SpatialSplitBuilt ==
    /\ op = "BuildHQ"
    /\ \E i \in Reachable :
          isLeaf(Nodes[i]) /\ \E p \in NodePos(Nodes[i]) : refs[p] >= bvh.triCount

\* the positions of the index array the leaves of the tree refer to
LeafPositions == UNION {NodePos(Nodes[i]) : i \in {j \in Reachable : isLeaf(Nodes[j])}}

\* the nodes that name node c as one of their two children
Parents(c) ==
    {i \in Reachable : ~isLeaf(Nodes[i]) /\ c \in {Nodes[i].leftFirst, Nodes[i].leftFirst + 1}}

\* C2: after any builder every node reachable from the root is a leaf with
\* at least one primitive or an interior node with triCount 0 whose two
\* children sit side by side past the unused node 1, each reached from that
\* node alone; no reachable node is a leaf without primitives
NoEmptyLeaves ==
    Built =>
        /\ \A i \in Reachable :
              \/ Nodes[i].triCount >= 1 /\ NodePos(Nodes[i]) \subseteq DOMAIN refs
              \/ /\ Nodes[i].triCount = 0
                 /\ Nodes[i].leftFirst >= FirstNewNode
                 /\ Nodes[i].leftFirst + 1 < bvh.usedNodes
                 /\ Parents(Nodes[i].leftFirst) = {i}
                 /\ Parents(Nodes[i].leftFirst + 1) = {i}
        /\ Parents(0) = {}
        /\ Cardinality(LeafPositions) >= bvh.triCount

\* a builder left a tree of at least two levels of interior nodes
DeepTreeBuilt ==
    /\ Built
    /\ \E i \in Reachable \ {0} : ~isLeaf(Nodes[i])
    /\ \E i \in Reachable : Nodes[i].triCount >= 2

\* C6, as the code has it: after Build over N >= 1 primitives usedNodes is
\* at most 2N, the unused node 1 included, and the nodes of the tree proper
\* number at most 2N - 1
NodeCountBound ==
    op = "Build" /\ bvh.triCount >= 1 =>
        /\ bvh.usedNodes <= 2 * bvh.triCount
        /\ Cardinality(Reachable) = bvh.usedNodes - 1

\* C6, as the specification words it: usedNodes <= 2N - 1 after Build
UsedNodesBelowTwoN ==
    op = "Build" /\ bvh.triCount >= 1 => bvh.usedNodes <= 2 * bvh.triCount - 1

\* Build split every primitive into a leaf of its own
FullTreeBuilt ==
    /\ op = "Build"
    /\ bvh.triCount = MaxPrims
    /\ bvh.usedNodes = 2 * bvh.triCount

\* C7, as the code has it: when no vertex moved since the tree was built,
\* Refit leaves every node but the unused node 1 as it was; node 1 keeps its
\* leftFirst and triCount and gets the union of its box and the box of node 0
RefitKeepsTree ==
    op = "Refit" /\ ~moved =>
        /\ \A i \in (0 .. bvh.usedNodes - 1) \ {1} : Nodes[i] = old[i]
        /\ Nodes[1] = [old[1] EXCEPT !.aabbMin = VMin(old[0].aabbMin, old[1].aabbMin),
                                     !.aabbMax = VMax(old[0].aabbMax, old[1].aabbMax)]

\* C7, as the specification words it: Refit leaves every node of indices
\* 0 .. usedNodes - 1 as it was when no vertex moved
RefitKeepsEveryNode ==
    op = "Refit" /\ ~moved => \A i \in 0 .. bvh.usedNodes - 1 : Nodes[i] = old[i]

\* Refit ran over a tree with interior nodes and no vertex had moved
RefitOfUnmovedTree ==
    /\ op = "Refit"
    /\ ~moved
    /\ bvh.usedNodes > FirstNewNode
    /\ old # <<>>

(***************************************************************************)
(* Traversal results.                                                      *)
(***************************************************************************)
\* C4: when IsOccluded has returned for a ray with maximum distance maxT,
\* it has returned true exactly if Intersect on the same tree leaves the
\* same ray with hit.t < maxT
AnyHitConsistent ==
    ray.op = "IsOccluded" =>
        (ray.occluded <=> RLess(IntersectBody(bvh, heap, ray.in).hit.t, ray.in.hit.t))

\* a shadow ray of finite length found an occluder in a tree with interior nodes
OccludedWithinMaxT ==
    /\ ray.op = "IsOccluded" /\ ray.occluded
    /\ ray.in.hit.t # Far /\ ~isLeaf(Nodes[0])

\* C3, for the layout BVH4_CPU: when BVH4_CPU::Intersect has returned, the
\* ray has the hit.t that BVH::Intersect leaves on the original tree
LayoutEquivalence ==
    ray.op = "BVH4_CPU::Intersect" => ray.out.hit.t = IntersectBody(bvh, heap, ray.in).hit.t

\* every ray of the packet points to the inner side of the four planes that
\* Intersect256Rays builds from rays 0, 51, 204 and 255
InFrustum(p) == \A i \in 0 .. 255 : \A k \in 1 .. 4 : Dot(p[i].D, Planes(p)[k]) <= 0

\* the primitives that a ray hits at distance t
PrimsAt(r, t) ==
    {idx \in 0 .. bvh.triCount - 1 :
        /\ InTriangle(MoellerTrumbore(r, Triangle(heap.buf[bvh.verts.data], idx)))
        /\ Frac(MoellerTrumbore(r, Triangle(heap.buf[bvh.verts.data], idx)).t,
                MoellerTrumbore(r, Triangle(heap.buf[bvh.verts.data], idx)).a) = t}

\* C5 as stated: after Intersect256Rays every ray of the packet has the hit.t
\* and the hit primitive that the scalar Intersect finds for that ray alone
PacketEqualsScalar ==
    packet.op = "Intersect256Rays" =>
        \A i \in 0 .. 255 :
            /\ packet.out[i].hit.t = IntersectBody(bvh, heap, packet.in[i]).hit.t
            /\ packet.out[i].hit.prim = IntersectBody(bvh, heap, packet.in[i]).hit.prim

\* C5, amended: if every ray of the packet lies inside the frustum of rays 0,
\* 51, 204 and 255, Intersect256Rays leaves each ray the hit.t of the scalar
\* Intersect and a primitive hit at that distance, which is the primitive of
\* the scalar Intersect whenever the ray hits only one primitive there
PacketEqualsScalarInFrustum ==
    packet.op = "Intersect256Rays" /\ InFrustum(packet.in) =>
        \A i \in 0 .. 255 :
            /\ packet.out[i].hit.t = IntersectBody(bvh, heap, packet.in[i]).hit.t
            /\ packet.out[i].hit.t # Far =>
                  /\ packet.out[i].hit.prim \in PrimsAt(packet.in[i], packet.out[i].hit.t)
                  /\ IntersectBody(bvh, heap, packet.in[i]).hit.prim \in PrimsAt(packet.in[i], packet.out[i].hit.t)

\* a packet inside its frustum was traced through a tree with a node outside
\* the planes; some rays hit, some miss, one has two nearest primitives
CulledPacketTraced ==
    /\ packet.op = "Intersect256Rays" /\ InFrustum(packet.in)
    /\ \E n \in Reachable : n # 0 /\ OutsidePlanes(Nodes[n], packet.in[0].O, Planes(packet.in))
    /\ \E i \in 0 .. 255 : packet.out[i].hit.t = Far
    /\ \E i \in 0 .. 255 :
          /\ packet.out[i].hit.t # Far
          /\ packet.out[i].hit.prim # IntersectBody(bvh, heap, packet.in[i]).hit.prim

\* C8: a second call of Build that yields zero primitives, or that finds the
\* tree not rebuildable, ends the program and leaves every buffer as it was
\* before the call
PreconditionViolationsAreFatal ==
    call # NoCall /\ (call.count \div 3 = 0 \/ ~bvh.rebuildable) => op = "exit" /\ heap = call.heap

\* C9: a tree that ConvertFrom has filled is not rebuildable
ConversionsClearRebuildable ==
    /\ verbose # NewBVH_Verbose => ~verbose.rebuildable
    /\ copy.triIdx # 0 /\ copy.triIdx = verbose.triIdx => ~copy.rebuildable
    /\ bvh4.bvh4Node # 0 => ~bvh4.rebuildable
    /\ bvh4_cpu.bvh4Node # 0 => ~bvh4_cpu.rebuildable

\* C10: every buffer has one owner, the tree that frees it: no buffer is
\* freed by two trees or freed twice
ExclusiveOwnership ==
    \A i \in 1 .. Len(heap.frees) : \A j \in 1 .. Len(heap.frees) :
        i # j => heap.frees[i].ptr # heap.frees[j].ptr

\* C11: no live converted tree references a node, index or fragment buffer
\* that has been freed: the BVH4 that borrowed the BVH of its ConvertFrom
\* call, and the BVH_Verbose that copied its index and fragment pointers
NoUseAfterFree ==
    /\ bvh4.bvh4Node # 0 =>
          ({bvh4.bvh.bvhNode, bvh4.bvh.triIdx, bvh4.bvh.fragment} \ {0}) \subseteq heap.live
    /\ verbose # NewBVH_Verbose /\ "verbose" \notin gone =>
          ({verbose.bvhNode, verbose.triIdx, verbose.fragment} \ {0}) \subseteq heap.live

\* the tree t with its node array and its index array is after the step what
\* it was before
SourceIntact(t, nodes, idx) ==
    /\ t' = t
    /\ heap'.buf[nodes] = heap.buf[nodes]
    /\ heap'.buf[idx] = heap.buf[idx]

\* the conversions other than BVH8_CWBVH::ConvertFrom leave their source as
\* it was
PlainConversionsKeepSource ==
    /\ verbose' # verbose \/ bvh4' # bvh4 \/ bvh8' # bvh8 => SourceIntact(bvh, bvh.bvhNode, bvh.triIdx)
    /\ copy' # copy /\ copy'.triIdx = verbose.triIdx => SourceIntact(verbose, verbose.bvhNode, verbose.triIdx)
    /\ bvh4_cpu' # bvh4_cpu => SourceIntact(bvh4, bvh4.bvh4Node, bvh4.bvh.triIdx)

\* C12 as stated: after any ConvertFrom call the node array, the index array,
\* the counters and the flags of the source are what they were before the call
ConversionsKeepSource ==
    [][/\ PlainConversionsKeepSource
       /\ cwbvh' # cwbvh => SourceIntact(bvh8, bvh8.bvh8Node, bvh8.bvh.triIdx)]_vars

\* C12, amended: BVH8_CWBVH::ConvertFrom keeps the counters, the flags and the
\* index array of its source and, of every node below usedNodes, the bounds
\* and the children, which it moves to other slots; a leaf of more than three
\* primitives it may turn into an interior node. Every other conversion
\* leaves its source as it was
ConversionsKeepSourceButCWBVH ==
    [][/\ PlainConversionsKeepSource
       /\ cwbvh' # cwbvh =>
             /\ bvh8' = bvh8
             /\ heap'.buf[bvh8.bvh.triIdx] = heap.buf[bvh8.bvh.triIdx]
             /\ \A i \in 0 .. bvh8.usedNodes - 1 :
                   LET before == heap.buf[bvh8.bvh8Node][i]
                       after == heap'.buf[bvh8.bvh8Node][i]
                   IN  /\ after.aabbMin = before.aabbMin /\ after.aabbMax = before.aabbMax
                       /\ after.firstTri = before.firstTri /\ after.childCount = before.childCount
                       /\ before.triCount <= 3 =>
                             /\ after.triCount = before.triCount
                             /\ \A c \in 1 .. bvh8.usedNodes - 1 :
                                   Cardinality({k \in 0 .. 7 : after.child[k] = c})
                                       = Cardinality({k \in 0 .. 7 : before.child[k] = c})
                       /\ before.triCount > 3 => after.triCount \in {0, before.triCount}]_vars

\* every conversion has run; BVH8_CWBVH::ConvertFrom has split a leaf of the
\* BVH8 and has moved a child of its root to another slot
EveryConversionDone ==
    /\ verbose # NewBVH_Verbose /\ copy # NewBVH /\ bvh4_cpu # NewBVH4_CPU
    /\ cwbvh.bvh8Data # 0
    /\ cwbvh.bvh8.usedNodes > bvh8.usedNodes
    /\ heap.buf[bvh8.bvh8Node][0].child[1] = 0

\* C13: every write of a build lies within the buffer it goes to: the node
\* pool holds the nodes in use, the index array and the fragment array hold
\* the entries the builder fills
WritesWithinCapacity ==
    bvh.bvhNode # 0 =>
        /\ bvh.usedNodes <= Cardinality(DOMAIN heap.buf[bvh.bvhNode])
        /\ bvh.idxCount <= Cardinality(DOMAIN heap.buf[bvh.triIdx])
        /\ bvh.idxCount <= Cardinality(DOMAIN heap.buf[bvh.fragment])

(***************************************************************************)
(* BVH::BuildTLAS( const BLASInstance* bvhs, instCount ): a tree over the  *)
(* world-space boxes of BLAS instances.                                    *)
(***************************************************************************)
\* sizeof( Fragment ): two bvhvec3 and two uint32_t
FragmentSize == 32

\* the world bounds of the instances the caller passes
InstanceBounds ==
    {[minBounds |-> P(0, 0, 0), maxBounds |-> P(1, 1, 0)],
     [minBounds |-> P(2, 1, 0), maxBounds |-> P(3, 2, 0)],
     [minBounds |-> P(9, 9, 1), maxBounds |-> P(10, 10, 2)]}
MaxInstances == 3
Instances == UNION {[1 .. n -> InstanceBounds] : n \in 0 .. MaxInstances}

\* AlignedAlloc( instCount ) reserves instCount bytes, room for
\* instCount / sizeof( Fragment ) fragments; the loop writes instCount
\* fragments: "overflow" when they do not fit. No builder is called.
BuildTLASBody(t, h, who, bvhs) ==
    LET instCount == Len(bvhs)
        Alloc == IF t.fragment = 0
                 THEN [h |-> AlignedAlloc(h, who, instCount \div FragmentSize, UninitFrag),
                       t |-> [t EXCEPT !.fragment = LastAlloc(h) + 1]]
                 ELSE [h |-> h, t |-> t]
        Copy(r) ==
            IF instCount > Cardinality(DOMAIN r.h.buf[r.t.fragment])
            THEN [op |-> "overflow", t |-> [r.t EXCEPT !.triCount = instCount], h |-> r.h]
            ELSE [op |-> "BuildTLAS", t |-> [r.t EXCEPT !.triCount = instCount],
                  h |-> [r.h EXCEPT !.buf[r.t.fragment] =
                            [i \in DOMAIN @ |->
                                IF i < instCount
                                THEN [bmin |-> bvhs[i + 1].minBounds, primIdx |-> i,
                                      bmax |-> bvhs[i + 1].maxBounds, clipped |-> 0]
                                ELSE @[i]]]]
    IN  IF instCount = 0 THEN [op |-> "exit", t |-> t, h |-> h]
        ELSE IF t.fragment # 0 /\ instCount # t.triCount THEN [op |-> "exit", t |-> t, h |-> h]
        ELSE Copy(Alloc)

BuildTLAS ==
    /\ op = "new" \/ Built
    /\ \E bvhs \in Instances :
          \E r \in {BuildTLASBody(bvh, heap, "bvh", bvhs)} :
              bvh' = r.t /\ heap' = r.h /\ op' = r.op
    /\ UNCHANGED <<old, refs, moved, bvh4, bvh4_cpu, ray, packet, verbose, copy, call, gone, bvh8, cwbvh, seed, runs, nextFrag, slices>>

TLASNext == Build \/ BuildHQ \/ BuildTLAS
TLASSpec == RebuildInit /\ [][TLASNext]_vars

\* C14: after BuildTLAS over n >= 1 instances has returned the tree is a BVH
\* over the n world-space boxes of the instances: it has a root whose box
\* encloses the box of every instance, and every instance index in [0, n)
\* is referred to by a leaf
TLASIsBuilt ==
    (op \in {"BuildTLAS", "overflow"}) =>
        /\ bvh.bvhNode # 0
        /\ \A i \in 0 .. bvh.triCount - 1 :
              Encloses(Nodes[0].aabbMin, Nodes[0].aabbMax, Frags[i].bmin, Frags[i].bmax)
        /\ \A i \in 0 .. bvh.triCount - 1 :
              \E n \in Reachable : isLeaf(Nodes[n]) /\ \E p \in NodePos(Nodes[n]) : refs[p] = i

(***************************************************************************)
(* The caller builds one tree with BuildAVX and a second one with Build    *)
(* over the same vertices.                                                 *)
(***************************************************************************)
EqualNext == BuildAVX \/ BuildCopy
EqualSpec == Init /\ [][EqualNext]_vars

\* the subtrees below node a of one tree and node b of another are the same:
\* two leaves over the same primitives, or two interior nodes whose left
\* subtrees are the same and whose right subtrees are the same
RECURSIVE SameSubtree(_, _, _, _, _, _)
SameSubtree(na, ia, a, nb, ib, b) ==
    IF isLeaf(na[a]) \/ isLeaf(nb[b])
    THEN /\ isLeaf(na[a]) /\ isLeaf(nb[b])
         /\ {ia[p] : p \in NodePos(na[a])} = {ib[p] : p \in NodePos(nb[b])}
    ELSE /\ SameSubtree(na, ia, na[a].leftFirst, nb, ib, nb[b].leftFirst)
         /\ SameSubtree(na, ia, na[a].leftFirst + 1, nb, ib, nb[b].leftFirst + 1)

\* C15: for every input BuildAVX produces the tree Build produces: the same
\* topology and the same primitives in every leaf
AVXEqualsReference ==
    (op = "BuildAVX" /\ copy # NewBVH) =>
        SameSubtree(Nodes, heap.buf[bvh.triIdx], 0, heap.buf[copy.bvhNode], heap.buf[copy.triIdx], 0)

(***************************************************************************)
(* BVH_Verbose::Optimize: reinsertion of randomly chosen subtrees.         *)
(***************************************************************************)
\* a reinsertion that hangs the best position on both sides of the new node
ReinsertedRightTwice(Xbest, Lid) == Xbest
\* N.left = Xbest, N.right = Lid: the right child of the node that
\* ReinsertNodeVerbose puts above Xbest
ReinsertedRight(Xbest, Lid) == Lid

\* BVH_Verbose::Optimize( iterations ) on the node array v of usedNodes nodes,
\* with the static seed s0 of the process; yields the nodes and the seed
Optimize(v0, usedNodes, iterations, s0) ==
    LET IsLeaf(node) == node.triCount > 0
        \* seed ^= seed << 13, seed ^= seed >> 17, seed ^= seed << 5 on 32 bits
        ShiftLeft(s, n) == [k \in 1 .. 32 |-> (s[k] + (IF k > n THEN s[k - n] ELSE 0)) % 2] @@ <<>>
        ShiftRight(s, n) == [k \in 1 .. 32 |-> (s[k] + (IF k + n <= 32 THEN s[k + n] ELSE 0)) % 2] @@ <<>>
        Xor32(s) == ShiftLeft(ShiftRight(ShiftLeft(s, 13), 17), 5)
        \* the 16 bits of s above bit b, as a number
        Half(s, b) ==
            s[b + 1] + 2 * s[b + 2] + 4 * s[b + 3] + 8 * s[b + 4] + 16 * s[b + 5] + 32 * s[b + 6]
            + 64 * s[b + 7] + 128 * s[b + 8] + 256 * s[b + 9] + 512 * s[b + 10] + 1024 * s[b + 11]
            + 2048 * s[b + 12] + 4096 * s[b + 13] + 8192 * s[b + 14] + 16384 * s[b + 15] + 32768 * s[b + 16]
        \* seed % m
        Mod(s, m) == ((Half(s, 16) % m) * (65536 % m) + Half(s, 0)) % m
        Valid(v, Nid) ==
            /\ v[Nid].parent # 0 /\ ~IsLeaf(v[Nid])
            /\ v[v[Nid].parent].parent # 0
        \* the do-while loop that draws a node
        RECURSIVE Draw(_, _)
        Draw(v, s) ==
            LET x == Xor32(s)
            IN  IF Valid(v, 2 + Mod(x, usedNodes - 2))
                THEN [Nid |-> 2 + Mod(x, usedNodes - 2), seed |-> x]
                ELSE Draw(v, x)
        RECURSIVE RefitUpVerbose(_, _)
        RefitUpVerbose(v, nodeIdx) ==
            IF nodeIdx = -1 THEN v
            ELSE RefitUpVerbose(
                     [v EXCEPT ![nodeIdx].aabbMin = VMin(v[v[nodeIdx].left].aabbMin, v[v[nodeIdx].right].aabbMin),
                               ![nodeIdx].aabbMax = VMax(v[v[nodeIdx].left].aabbMax, v[v[nodeIdx].right].aabbMax)],
                     v[nodeIdx].parent)
        \* the task with the greatest taskInvCi, the first of them: the one of
        \* the least Ci
        BestTask(tasks) ==
            CHOOSE j \in 1 .. Len(tasks) :
                /\ \A k \in 1 .. Len(tasks) : tasks[j].Ci <= tasks[k].Ci
                /\ \A k \in 1 .. j - 1 : tasks[k].Ci > tasks[j].Ci
        \* taskNode[bestTask] = taskNode[--tasks]
        Taken(tasks, j) ==
            SubSeq([tasks EXCEPT ![j] = tasks[Len(tasks)]], 1, Len(tasks) - 1)
        RECURSIVE Search(_, _, _, _, _)
        Search(v, Lid, tasks, Cbest, Xbest) ==
            IF tasks = <<>> THEN Xbest
            ELSE LET task == tasks[BestTask(tasks)]
                     rest == Taken(tasks, BestTask(tasks))
                     X == v[task.node]
                     SA_L == SA(v[Lid].aabbMin, v[Lid].aabbMax)
                     CLX == task.Ci + SA(VMin(v[Lid].aabbMin, X.aabbMin), VMax(v[Lid].aabbMax, X.aabbMax))
                     Cnew == IF CLX < Cbest THEN CLX ELSE Cbest
                     Xnew == IF CLX < Cbest THEN task.node ELSE Xbest
                     Ci == CLX - SA(X.aabbMin, X.aabbMax)
                 IN  IF task.Ci + SA_L >= Cbest THEN Xbest
                     ELSE IF Ci + SA_L < Cnew /\ ~IsLeaf(X)
                     THEN Search(v, Lid, rest \o <<[node |-> X.left, Ci |-> Ci], [node |-> X.right, Ci |-> Ci]>>,
                                 Cnew, Xnew)
                     ELSE Search(v, Lid, rest, Cnew, Xnew)
        FindBestNewPosition(v, Lid) == Search(v, Lid, <<[node |-> 0, Ci |-> 0]>>, BVH_FAR, 0)
        Inserted(v, Lid, Nid, Xbest) ==
            LET X1 == v[Xbest].parent
                v1 == [v EXCEPT ![Nid].left = Xbest, ![Nid].right = ReinsertedRight(Xbest, Lid),
                                ![Nid].aabbMin = VMin(v[Xbest].aabbMin, v[Lid].aabbMin),
                                ![Nid].aabbMax = VMax(v[Xbest].aabbMax, v[Lid].aabbMax),
                                ![Nid].parent = X1]
                v2 == IF v1[X1].left = Xbest THEN [v1 EXCEPT ![X1].left = Nid]
                      ELSE [v1 EXCEPT ![X1].right = Nid]
            IN  RefitUpVerbose([v2 EXCEPT ![Xbest].parent = Nid, ![Lid].parent = Nid], Nid)
        ReinsertNodeVerbose(v, Lid, Nid, origin) ==
            LET Xbest == FindBestNewPosition(v, Lid)
            IN  Inserted(v, Lid, Nid, IF Xbest = 0 \/ v[Xbest].parent = 0 THEN origin ELSE Xbest)
        Snipped(v, Nid) ==
            LET Pid == v[Nid].parent
                X1 == v[Pid].parent
                X2 == IF v[Pid].left = Nid THEN v[Pid].right ELSE v[Pid].left
                v1 == IF v[X1].left = Pid THEN [v EXCEPT ![X1].left = X2] ELSE [v EXCEPT ![X1].right = X2]
                v2 == RefitUpVerbose([v1 EXCEPT ![X2].parent = X1], X1)
            IN  ReinsertNodeVerbose(ReinsertNodeVerbose(v2, v[Nid].left, Pid, X1), v[Nid].right, Nid, X1)
        RECURSIVE Iterate(_, _, _)
        \* with no node for the do-while loop to accept the iteration never ends
        Iterate(v, s, i) ==
            IF i = iterations THEN [nodes |-> v, seed |-> s, returned |-> TRUE]
            ELSE IF \A Nid \in 2 .. usedNodes - 1 : ~Valid(v, Nid)
            THEN [nodes |-> v, seed |-> s, returned |-> FALSE]
            ELSE LET d == Draw(v, s) IN Iterate(Snipped(v, d.Nid), d.seed, i + 1)
    IN  Iterate(v0, s0, 0)

\* the caller optimizes at most MaxRuns times, with up to MaxIterations iterations
MaxRuns == 2
MaxIterations == 2

OptimizeVerbose ==
    /\ verbose # NewBVH_Verbose /\ Len(runs) < MaxRuns
    /\ op \notin {"exit", "division by zero", "wild read", "no return", "overflow", "Compact"}
    /\ \E iterations \in 1 .. MaxIterations :
          IF verbose.usedNodes = 2
          THEN \* seed % ( usedNodes - 2 ) divides by zero: the program traps, or
               \* goes on with a node index of any value
               /\ \E outcome \in {"division by zero", "wild read"} : op' = outcome
               /\ UNCHANGED <<heap, seed, runs>>
          ELSE \E r \in {Optimize(heap.buf[verbose.bvhNode], verbose.usedNodes, iterations, seed)} :
                  /\ heap' = [heap EXCEPT !.buf[verbose.bvhNode] = r.nodes]
                  /\ seed' = r.seed
                  /\ runs' = Append(runs, [in |-> heap.buf[verbose.bvhNode], iterations |-> iterations,
                                           out |-> r.nodes, returned |-> r.returned])
                  /\ op' = IF r.returned THEN op ELSE "no return"
    /\ UNCHANGED <<bvh, old, refs, moved, bvh4, bvh4_cpu, ray, packet, verbose, copy, call, gone, bvh8, cwbvh, nextFrag, slices>>

\* BVH_Verbose::ConvertFrom on a BVH_Verbose that was optimized
ConvertVerboseAgain ==
    /\ Built /\ runs # <<>> /\ heap.buf[verbose.bvhNode] = runs[Len(runs)].out
    /\ \E r \in {BVH_VerboseConvertFrom(verbose, heap, "verbose", bvh)} : verbose' = r.t /\ heap' = r.h
    /\ UNCHANGED <<bvh, op, old, refs, moved, bvh4, bvh4_cpu, ray, packet, copy, call, gone, bvh8, cwbvh, seed, runs, nextFrag, slices>>

\* scenes whose tree is deep enough for Optimize: triangles at distances
\* that double along x
DeepScenes ==
    {Flatten(<<Small(0, a), Small(1, b), Small(3, c), Small(7, 0), Small(15, 0), Small(31, 0)>>) :
        a \in {0, 1}, b \in {0, 1}, c \in {0, 2}}

OptimizeNext == Build \/ BuildQuick \/ ConvertVerbose \/ OptimizeVerbose \/ ConvertVerboseAgain
OptimizeInit == Start(DeepScenes)
OptimizeSpec == OptimizeInit /\ [][OptimizeNext]_vars

\* C16: two Optimize runs with the same iteration count on identical trees
\* produce identical trees, however many Optimize calls came before
OptimizeIsDeterministic ==
    \A i \in 1 .. Len(runs), j \in 1 .. Len(runs) :
        (runs[i].in = runs[j].in /\ runs[i].iterations = runs[j].iterations) => runs[i].out = runs[j].out

(***************************************************************************)
(* BVH::Compact: the nodes a traversal reaches, copied to a pool of their  *)
(* own.                                                                    *)
(***************************************************************************)
\* "exit" on the fatal error; "overflow" when a node is written past the end
\* of the new pool of usedNodes nodes
Compact(t, h, who) ==
    LET src == h.buf[t.bvhNode]
        RECURSIVE Walk(_, _, _, _)
        Walk(tmp, newNodePtr, nodeIdx, stack) ==
            LET left == src[tmp[nodeIdx].leftFirst]
                right == src[tmp[nodeIdx].leftFirst + 1]
                todo == stack \o (IF isLeaf(left) THEN <<>> ELSE <<newNodePtr>>)
                              \o (IF isLeaf(right) THEN <<>> ELSE <<newNodePtr + 1>>)
                copied == [tmp EXCEPT ![newNodePtr] = left, ![newNodePtr + 1] = right,
                                      ![nodeIdx].leftFirst = newNodePtr]
            IN  IF newNodePtr + 1 >= t.usedNodes
                THEN [op |-> "overflow", tmp |-> copied, newNodePtr |-> newNodePtr + 2]
                ELSE IF todo = <<>> THEN [op |-> "Compact", tmp |-> copied, newNodePtr |-> newNodePtr + 2]
                ELSE Walk(copied, newNodePtr + 2, todo[Len(todo)], SubSeq(todo, 1, Len(todo) - 1))
        Done(w, h1) ==
            [op |-> w.op,
             t |-> [t EXCEPT !.usedNodes = w.newNodePtr, !.bvhNode = LastAlloc(h1)],
             h |-> AlignedFree([h1 EXCEPT !.buf[LastAlloc(h1)] = w.tmp], who, t.bvhNode)]
    IN  IF t.bvhNode = 0 THEN [op |-> "exit", t |-> t, h |-> h]
        ELSE Done(Walk([i \in 0 .. t.usedNodes - 1 |-> IF i < 2 THEN src[i] ELSE UninitNode], 2, 0, <<>>),
                  AlignedAlloc(h, who, t.usedNodes, UninitNode))

CompactBVH ==
    /\ op = "new" \/ Built
    /\ \E r \in {Compact(bvh, heap, "bvh")} : bvh' = r.t /\ heap' = r.h /\ op' = r.op
    /\ old' = IF bvh.bvhNode = 0 THEN <<>> ELSE heap.buf[bvh.bvhNode]
    /\ UNCHANGED <<refs, moved, bvh4, bvh4_cpu, ray, packet, verbose, copy, call, gone, bvh8, cwbvh, seed, runs, nextFrag, slices>>

CompactNext == Build \/ BuildQuick \/ BuildAVX \/ BuildHQ \/ CompactBVH
CompactSpec == Init /\ [][CompactNext]_vars

\* the leaves a traversal of the nodes reaches, each with its primitive range
\* and its bounds
LeavesOf(nodes, used) ==
    {[first |-> nodes[i].leftFirst, count |-> nodes[i].triCount,
      aabbMin |-> nodes[i].aabbMin, aabbMax |-> nodes[i].aabbMax] :
        i \in {n \in Grow({0}, nodes, used) : isLeaf(nodes[n])}}

\* C17: Compact only removes unused nodes: for every valid BVH, also one whose
\* root is a leaf, the compacted tree has the root bounds and the leaves (with
\* their primitive ranges and bounds) it had before the call, and usedNodes
\* counts the reachable nodes and the pad node
CompactKeepsTree ==
    (op \in {"Compact", "overflow"}) =>
        /\ Nodes[0].aabbMin = old[0].aabbMin /\ Nodes[0].aabbMax = old[0].aabbMax
        /\ LeavesOf(Nodes, bvh.usedNodes) = LeavesOf(old, Cardinality(DOMAIN old))
        /\ bvh.usedNodes = Cardinality(Reachable) + 1

(***************************************************************************)
(* The order in which the 2-wide traversals visit the children of a node.  *)
(***************************************************************************)
\* BVH::Intersect( Ray& ray ): for every interior node it reaches, in order,
\* the distances of the left and the right child, the child it continues
\* with and the child it pushes (-1: none)
IntersectOrder(t, h, ray0) ==
    LET RECURSIVE IntersectLeaf(_, _, _, _, _)
        IntersectLeaf(shot, verts, triIdx, first, count) ==
            IF count = 0 THEN shot
            ELSE IntersectLeaf(IntersectTri(shot, verts, triIdx[first]), verts, triIdx, first + 1, count - 1)
        Entry(shot, nodes, n, o) ==
            [node |-> n,
             left |-> IntersectAABB(shot, nodes[nodes[n].leftFirst].aabbMin, nodes[nodes[n].leftFirst].aabbMax),
             right |-> IntersectAABB(shot, nodes[nodes[n].leftFirst + 1].aabbMin, nodes[nodes[n].leftFirst + 1].aabbMax),
             next |-> IF o.dist1 = Far THEN -1 ELSE o.near,
             pushed |-> IF o.dist1 # Far /\ o.dist2 # Far THEN o.far ELSE -1]
        RECURSIVE IntersectFrom(_, _, _, _, _, _, _)
        IntersectPop(nodes, triIdx, verts, shot, stack, log) ==
            IF stack = <<>> THEN log
            ELSE IntersectFrom(nodes, triIdx, verts, shot, Top(stack), Popped(stack), log)
        IntersectDescend(nodes, triIdx, verts, shot, stack, o, log) ==
            IF o.dist1 = Far THEN IntersectPop(nodes, triIdx, verts, shot, stack, log)
            ELSE IntersectFrom(nodes, triIdx, verts, shot, o.near, Pushed(stack, o), log)
        IntersectFrom(nodes, triIdx, verts, shot, n, stack, log) ==
            IF isLeaf(nodes[n])
            THEN IntersectPop(nodes, triIdx, verts,
                     IntersectLeaf(shot, verts, triIdx, nodes[n].leftFirst, nodes[n].triCount), stack, log)
            ELSE IntersectDescend(nodes, triIdx, verts, shot, stack, Sorted(shot, nodes, n),
                                  Append(log, Entry(shot, nodes, n, Sorted(shot, nodes, n))))
    IN  IntersectFrom(h.buf[t.bvhNode], h.buf[t.triIdx], h.buf[t.verts.data], ray0, 0, <<>>, <<>>)

\* BVH::IsOccluded( const Ray& ray ): the same for the shadow ray, up to the
\* leaf that occludes it
IsOccludedOrder(t, h, ray0) ==
    LET Entry(shot, nodes, n, o) ==
            [node |-> n,
             left |-> IntersectAABB(shot, nodes[nodes[n].leftFirst].aabbMin, nodes[nodes[n].leftFirst].aabbMax),
             right |-> IntersectAABB(shot, nodes[nodes[n].leftFirst + 1].aabbMin, nodes[nodes[n].leftFirst + 1].aabbMax),
             next |-> IF o.dist1 = Far THEN -1 ELSE o.near,
             pushed |-> IF o.dist1 # Far /\ o.dist2 # Far THEN o.far ELSE -1]
        RECURSIVE IsOccludedFrom(_, _, _, _, _, _, _)
        IsOccludedPop(nodes, triIdx, verts, shot, stack, log) ==
            IF stack = <<>> THEN log
            ELSE IsOccludedFrom(nodes, triIdx, verts, shot, Top(stack), Popped(stack), log)
        IsOccludedDescend(nodes, triIdx, verts, shot, stack, o, log) ==
            IF o.dist1 = Far THEN IsOccludedPop(nodes, triIdx, verts, shot, stack, log)
            ELSE IsOccludedFrom(nodes, triIdx, verts, shot, o.near, Pushed(stack, o), log)
        IsOccludedFrom(nodes, triIdx, verts, shot, n, stack, log) ==
            IF isLeaf(nodes[n])
            THEN IF \E i \in NodePos(nodes[n]) : Occludes(shot, MoellerTrumbore(shot, Triangle(verts, triIdx[i])))
                 THEN log
                 ELSE IsOccludedPop(nodes, triIdx, verts, shot, stack, log)
            ELSE IsOccludedDescend(nodes, triIdx, verts, shot, stack, Sorted(shot, nodes, n),
                                   Append(log, Entry(shot, nodes, n, Sorted(shot, nodes, n))))
    IN  IsOccludedFrom(h.buf[t.bvhNode], h.buf[t.triIdx], h.buf[t.verts.data], ray0, 0, <<>>, <<>>)

\* BVH::Intersect256Rays( Ray* packet ): for every interior node of which it
\* visits both children, in order, the results of the tests on the left and
\* the right child and the child it continues with; the other one is pushed
Intersect256RaysOrder(t, h, packet0) ==
    LET RECURSIVE PacketFrom(_, _, _, _, _, _, _)
        PacketPop(g, rays, stack, log) ==
            IF stack = <<>> THEN log
            ELSE PacketFrom(g, rays, stack[Len(stack) - 1], Top(stack) \div 256, Top(stack) % 256,
                            SubSeq(stack, 1, Len(stack) - 2), log)
        PacketDescend(g, rays, n, node, stack, l, r, log) ==
            IF l.visit /\ r.visit
            THEN IF DistLess(rays, l.dist, r.dist)
                 THEN PacketFrom(g, rays, node.leftFirst, l.first, l.last,
                                 stack \o <<node.leftFirst + 1, r.first * 256 + r.last>>,
                                 Append(log, [node |-> n, left |-> l.dist, right |-> r.dist,
                                              next |-> node.leftFirst, pushed |-> node.leftFirst + 1]))
                 ELSE PacketFrom(g, rays, node.leftFirst + 1, r.first, r.last,
                                 stack \o <<node.leftFirst, l.first * 256 + l.last>>,
                                 Append(log, [node |-> n, left |-> l.dist, right |-> r.dist,
                                              next |-> node.leftFirst + 1, pushed |-> node.leftFirst]))
            ELSE IF l.visit THEN PacketFrom(g, rays, node.leftFirst, l.first, l.last, stack, log)
            ELSE IF r.visit THEN PacketFrom(g, rays, node.leftFirst + 1, r.first, r.last, stack, log)
            ELSE PacketPop(g, rays, stack, log)
        PacketFrom(g, rays, n, first, last, stack, log) ==
            IF isLeaf(g.nodes[n])
            THEN PacketPop(g, LeafPacket(rays, g.verts, g.triIdx, g.nodes[n], first, last), stack, log)
            ELSE PacketDescend(g, rays, n, g.nodes[n], stack,
                     VisitChild(rays, g.planes, g.nodes[g.nodes[n].leftFirst], first, last),
                     VisitChild(rays, g.planes, g.nodes[g.nodes[n].leftFirst + 1], first, last), log)
    IN  PacketFrom([nodes |-> h.buf[t.bvhNode], triIdx |-> h.buf[t.triIdx], verts |-> h.buf[t.verts.data],
                    planes |-> Planes(packet0)], packet0, 0, 0, 255, <<>>, <<>>)

OrderNext == Build \/ Intersect \/ IsOccluded \/ Intersect256Rays
\* the scenes the rays are traced through, among them one in which a ray
\* meets the right child of the root before the left one
OrderInit ==
    Start(ConvertScenes
          \cup {Flatten(<< <<P(0, 0, 0), P(4, 0, 0), P(4, 1, 0)>>, <<P(0, 0, 1), P(0, 1, 2), P(1, 0, 2)>> >>)})
OrderSpec == OrderInit /\ [][OrderNext]_vars

\* entry e of a log: the right child is visited first and the left one pushed
\* if rightFirst, else the left child is visited first and the right one pushed
NearestFirst(nodes, e, rightFirst) ==
    IF rightFirst THEN e.next = nodes[e.node].leftFirst + 1 /\ e.pushed = nodes[e.node].leftFirst
    ELSE e.next = nodes[e.node].leftFirst /\ e.pushed = nodes[e.node].leftFirst + 1

\* a scalar traversal takes the nearer child first, the left one on a tie
ScalarOrdered(nodes, log) ==
    \A k \in DOMAIN log :
        (log[k].left # Far /\ log[k].right # Far) => NearestFirst(nodes, log[k], RLess(log[k].right, log[k].left))
ScalarNearChildFirst ==
    /\ ray.op = "Intersect" => ScalarOrdered(Nodes, IntersectOrder(bvh, heap, ray.in))
    /\ ray.op = "IsOccluded" => ScalarOrdered(Nodes, IsOccludedOrder(bvh, heap, ray.in))

\* the packet traversal takes the nearer child first, the left one on a tie
PacketOrdered(nodes, rays, log) ==
    \A k \in DOMAIN log : NearestFirst(nodes, log[k], DistLess(rays, log[k].right, log[k].left))
\* the packet traversal takes the left child first only if it is nearer
PacketOrderedRightOnTie(nodes, rays, log) ==
    \A k \in DOMAIN log : NearestFirst(nodes, log[k], ~DistLess(rays, log[k].left, log[k].right))
\* some node of the log has both children at the same distance
PacketTie(rays, log) ==
    \E k \in DOMAIN log :
        ~DistLess(rays, log[k].left, log[k].right) /\ ~DistLess(rays, log[k].right, log[k].left)
ScalarTie(log) ==
    \E k \in DOMAIN log :
        /\ log[k].left # Far /\ log[k].right # Far
        /\ ~RLess(log[k].left, log[k].right) /\ ~RLess(log[k].right, log[k].left)

\* C18: in Intersect, IsOccluded and Intersect256Rays, when both children of a
\* node are to be visited, the child of the smaller entry distance is visited
\* first and the other one is pushed; on equal distances the left child is
\* visited first
NearChildFirst ==
    /\ ScalarNearChildFirst
    /\ packet.op = "Intersect256Rays" =>
          PacketOrdered(Nodes, packet.in, Intersect256RaysOrder(bvh, heap, packet.in))

\* C18, amended: as above for Intersect and IsOccluded; Intersect256Rays
\* visits the left child first only if its distance is the smaller one, and
\* on equal distances it visits the right child first and pushes the left one
NearChildFirstRightOnPacketTie ==
    /\ ScalarNearChildFirst
    /\ packet.op = "Intersect256Rays" =>
          PacketOrderedRightOnTie(Nodes, packet.in, Intersect256RaysOrder(bvh, heap, packet.in))

\* a packet and a ray were traced and each met a node with both children at
\* the same distance
TieTraced ==
    /\ packet.op = "Intersect256Rays" /\ PacketTie(packet.in, Intersect256RaysOrder(bvh, heap, packet.in))
    /\ ray.op = "Intersect" /\ ScalarTie(IntersectOrder(bvh, heap, ray.in))

(***************************************************************************)
(* The fragments BuildHQ creates and the slack it allocates for them.      *)
(***************************************************************************)
\* C19: a BuildHQ over N primitives writes fragment[nextFrag] only below
\* N + N / 4: no write goes past the end of the fragment array, and the build
\* ends with nextFrag at most N + N / 4, the size of that array
FragmentsFitSlack ==
    /\ op # "overflow"
    /\ op = "BuildHQ" =>
        /\ nextFrag <= bvh.triCount + bvh.triCount \div 4
        /\ nextFrag <= Cardinality(DOMAIN heap.buf[bvh.fragment])
        /\ \A i \in bvh.triCount .. nextFrag - 1 : heap.buf[bvh.fragment][i].clipped = 1

\* BuildHQ took a spatial split that added a fragment
FragmentAdded == op = "BuildHQ" /\ nextFrag > bvh.triCount

\* a child of a partition keeps its references inside the slice it was given
InsideSlice(c) == c.sliceStart <= c.leftFirst /\ c.leftFirst + c.triCount <= c.sliceEnd

\* C20: in every partition of BuildHQ over a slice [sliceStart, sliceEnd) the
\* left region, growing up from sliceStart to A, and the right region, growing
\* down from sliceEnd to B, do not overlap (A <= B); the children get the
\* slices [sliceStart, (A + B) / 2) and [(A + B) / 2, sliceEnd), the left one
\* with the references [sliceStart, A) and the right one with [B, sliceEnd),
\* each inside its slice
SliceDiscipline ==
    \A k \in DOMAIN slices :
        /\ slices[k].sliceStart <= slices[k].A
        /\ slices[k].A <= slices[k].B
        /\ slices[k].B <= slices[k].sliceEnd
        /\ slices[k].children # <<>> =>
              /\ slices[k].children[1].sliceStart = slices[k].sliceStart
              /\ slices[k].children[1].sliceEnd = (slices[k].A + slices[k].B) \div 2
              /\ slices[k].children[2].sliceStart = (slices[k].A + slices[k].B) \div 2
              /\ slices[k].children[2].sliceEnd = slices[k].sliceEnd
              /\ slices[k].children[1].leftFirst = slices[k].sliceStart
              /\ slices[k].children[1].triCount = slices[k].A - slices[k].sliceStart
              /\ slices[k].children[2].leftFirst = slices[k].B
              /\ slices[k].children[2].triCount = slices[k].sliceEnd - slices[k].B
              /\ InsideSlice(slices[k].children[1])
              /\ InsideSlice(slices[k].children[2])

\* BuildHQ partitioned a node with room to spare, and then one of its children
\* within the slice that child was given
SlicesEmitted ==
    /\ op = "BuildHQ"
    /\ \E k \in DOMAIN slices :
          /\ slices[k].children # <<>>
          /\ slices[k].A < slices[k].B
          /\ \E j \in DOMAIN slices :
                j > k /\ slices[j].children # <<>> /\ slices[j].sliceStart = slices[k].children[2].sliceStart

(***************************************************************************)
(* Refit of a built tree and of a tree taken back from a BVH_Verbose.      *)
(***************************************************************************)
\* bvh.ConvertFrom( verbose ): the tree takes the nodes of the BVH_Verbose that
\* was converted from it
ConvertBack ==
    /\ Built /\ verbose # NewBVH_Verbose /\ ConvertFits(bvh, verbose)
    /\ \E r \in {BVHConvertFrom(bvh, heap, "bvh", verbose)} : bvh' = r.t /\ heap' = r.h
    /\ op' = "ConvertFrom"
    /\ old' = <<>>
    /\ UNCHANGED <<refs, moved, bvh4, bvh4_cpu, ray, packet, verbose, copy, call, gone, bvh8, cwbvh, seed, runs, nextFrag, slices>>

RefitNext ==
    \/ Build \/ BuildQuick \/ BuildAVX \/ BuildHQ
    \/ MoveVertex \/ ConvertVerbose \/ OptimizeVerbose \/ ConvertBack \/ Refit
RefitInit == Start(DeepScenes)
RefitSpec == RefitInit /\ [][RefitNext]_vars

\* C21: after Refit every interior node a traversal reaches has the union of
\* the boxes its two children have after the Refit
RefitUnitesChildren ==
    op = "Refit" =>
        \A n \in Reachable :
            ~isLeaf(Nodes[n]) =>
                /\ Nodes[n].aabbMin = VMin(Nodes[Nodes[n].leftFirst].aabbMin, Nodes[Nodes[n].leftFirst + 1].aabbMin)
                /\ Nodes[n].aabbMax = VMax(Nodes[Nodes[n].leftFirst].aabbMax, Nodes[Nodes[n].leftFirst + 1].aabbMax)

\* Refit changed a tree that BVH::ConvertFrom took from a BVH_Verbose which
\* Optimize had changed, after a vertex moved
RefitOfConvertedTree ==
    /\ op = "Refit" /\ moved /\ runs # <<>>
    /\ runs[Len(runs)].in # runs[Len(runs)].out
    /\ heap.buf[verbose.bvhNode] = runs[Len(runs)].out
    /\ old = BVHConvertFrom(bvh, heap, "bvh", verbose).h.buf[bvh.bvhNode]
    /\ old # Nodes

(***************************************************************************)
(* BVH::BuildTLAS( const bvhaabb* aabbs, aabbCount ): a tree over boxes of *)
(* the caller, and Refit of such a tree.                                   *)
(***************************************************************************)
\* the array of the caller as the fragment array BuildTLAS takes it for: a
\* bvhaabb is minBounds, dummy1, maxBounds, dummy2
AabbArray(aabbs) ==
    [i \in 0 .. Len(aabbs) - 1 |->
        [bmin |-> aabbs[i + 1].minBounds, primIdx |-> "uninit",
         bmax |-> aabbs[i + 1].maxBounds, clipped |-> "uninit"]] @@ <<>>

\* the caller allocates an array of boxes and calls BuildTLAS: fragment and
\* triCount are set, then Build( 0, aabbCount ) runs.  When its allocation
\* branch has freed the array the loops of Build read freed memory: they
\* find the boxes still there, or anything else ("use after free")
BuildTLASAabbs ==
    /\ op = "new" \/ Built
    /\ \E aabbs \in Instances :
          IF Len(aabbs) = 0 THEN op' = "exit" /\ UNCHANGED <<heap, bvh, refs>>
          ELSE \E r \in {BuildCall([bvh EXCEPT !.fragment = Len(heap.buf) + 1, !.triCount = Len(aabbs)],
                                   AllocArray(heap, "caller", AabbArray(aabbs)), "bvh",
                                   [data |-> 0, count |-> 3 * Len(aabbs)])} :
                  /\ bvh' = r.t /\ heap' = r.h
                  /\ refs' = IF r.exit THEN refs ELSE r.h.buf[r.t.triIdx]
                  /\ \E outcome \in (IF r.exit THEN {"exit"}
                                     ELSE IF r.t.fragment \in r.h.live THEN {"BuildTLAS( aabbs )"}
                                     ELSE {"BuildTLAS( aabbs )", "use after free"}) : op' = outcome
    /\ UNCHANGED <<old, moved, bvh4, bvh4_cpu, ray, packet, verbose, copy, call, gone, bvh8, cwbvh, seed, runs, nextFrag, slices>>

AabbNext == Build \/ BuildTLASAabbs \/ Refit
AabbSpec == RebuildInit /\ [][AabbNext]_vars

\* C22: Refit of a tree built over boxes gives every leaf the union of the
\* boxes of the fragments it refers to
RefitOverAabbs ==
    (op \in {"Refit", "null read"} /\ bvh.bvh_over_aabbs) =>
        /\ op = "Refit"
        /\ \A n \in Reachable :
              isLeaf(Nodes[n]) =>
                  /\ Nodes[n].aabbMin = BoundsMin(NodePos(Nodes[n]), heap.buf[bvh.triIdx], Frags)
                  /\ Nodes[n].aabbMax = BoundsMax(NodePos(Nodes[n]), heap.buf[bvh.triIdx], Frags)

(***************************************************************************)
(* Scratch stacks.  A scene of n nested triangles, the longer one always   *)
(* reaching past the middle of the rest: BuildQuick splits one triangle    *)
(* off at every level, and a ray through the boxes of all of them pushes   *)
(* one node at every level.                                                *)
(***************************************************************************)
Nested(l) == <<P(0, 0, 0), P(l + 3, 0, 0), P(l + 3, 3, 0)>>
NestedScene(n) == [i \in 1 .. 3 * n |-> Nested((i - 1) \div 3 + 1)[((i - 1) % 3) + 1]] @@ <<>>
NestedScenes == {NestedScene(n) : n \in {2, 3, 5, 8, 64, 65, 66, 67, 70}}

StackNext == BuildQuick \/ Intersect
StackInit == Start(NestedScenes)
StackSpec == StackInit /\ [][StackNext]_vars

\* C23: no push of a traversal writes at or beyond the 64 entries of its
\* stack: the highest stackPtr a push of BVH::Intersect leaves behind is at
\* most 64, whatever tree a builder made
StackStaysInside ==
    ray.op \in {"Intersect", "stack overflow"} => ray.op = "Intersect" /\ ray.stackPtr <= StackSize

(***************************************************************************)
(* Adoption in the wide trees.  The scenes converted here include needles: *)
(* triangles whose three vertices lie on one line along the x axis, so     *)
(* that the box of every node over them has no area.                       *)
(***************************************************************************)
Line(x) == <<P(x, 0, 0), P(x + 1, 0, 0), P(x + 1, 0, 0)>>
LineScenes == {Flatten(<<Line(0), Line(3), c>>) : c \in {Line(7), Small(7, 0)}}

WideNext == Build \/ BuildQuick \/ ConvertBVH4 \/ ConvertBVH8
WideInit == Start(ConvertScenes \cup LineScenes)
WideSpec == WideInit /\ [][WideNext]_vars

\* the nodes of a wide tree a traversal from the root can visit
RECURSIVE WideReachable(_, _)
WideReachable(S, nodes) ==
    LET T == S \cup UNION {{nodes[n].child[k] : k \in 0 .. nodes[n].childCount - 1} : n \in {m \in S : ~isLeaf(nodes[m])}}
    IN  IF T = S THEN S ELSE WideReachable(T, nodes)

\* no child of node n of a K-wide tree can still be adopted: its children are
\* all leaves, or taking the place of an interior child by that child's own
\* children would leave more than K
AdoptionDone(nodes, n, K) ==
    \/ \A k \in 0 .. nodes[n].childCount - 1 : isLeaf(nodes[nodes[n].child[k]])
    \/ \A k \in 0 .. nodes[n].childCount - 1 :
          ~isLeaf(nodes[nodes[n].child[k]]) =>
              nodes[n].childCount - 1 + nodes[nodes[n].child[k]].childCount > K

\* C24: after BVH4::ConvertFrom and after BVH8::ConvertFrom adoption has run
\* to completion in every interior node a traversal reaches from the root
AdoptionComplete ==
    /\ bvh4.bvh4Node # 0 =>
          \A n \in WideReachable({0}, heap.buf[bvh4.bvh4Node]) :
              ~isLeaf(heap.buf[bvh4.bvh4Node][n]) => AdoptionDone(heap.buf[bvh4.bvh4Node], n, 4)
    /\ bvh8.bvh8Node # 0 =>
          \A n \in WideReachable({0}, heap.buf[bvh8.bvh8Node]) :
              ~isLeaf(heap.buf[bvh8.bvh8Node][n]) => AdoptionDone(heap.buf[bvh8.bvh8Node], n, 8)

\* the nodes of a verbose tree that a walk from the root over left and right
\* reaches
RECURSIVE VerboseReach(_, _)
VerboseReach(S, v) ==
    LET T == S \cup UNION {{v[n].left, v[n].right} : n \in {m \in S : v[m].triCount = 0}}
    IN  IF T = S THEN S ELSE VerboseReach(T, v)

\* v is a proper binary tree rooted at node 0: the two children of a node
\* differ, the root is nobody's child and every other node it reaches is the
\* child of exactly one node
ProperTree(v) ==
    LET R == VerboseReach({0}, v)
        I == {n \in R : v[n].triCount = 0}
    IN  /\ \A n \in I : v[n].left # v[n].right
        /\ \A c \in R : Cardinality({n \in I : c \in {v[n].left, v[n].right}}) = IF c = 0 THEN 0 ELSE 1

\* the leaves a walk from the root reaches, with the primitives they hold
VerboseLeaves(v) ==
    {<<n, v[n].firstTri, v[n].triCount>> : n \in {m \in VerboseReach({0}, v) : v[m].triCount > 0}}

\* C25: Optimize leaves a proper binary tree rooted at node 0 that reaches
\* exactly the leaves the tree reached before, each of them once
OptimizeKeepsLeaves ==
    \A i \in 1 .. Len(runs) :
        /\ ProperTree(runs[i].out)
        /\ VerboseLeaves(runs[i].out) = VerboseLeaves(runs[i].in)

\* an iteration of Optimize has hung a subtree elsewhere
SubtreeReinserted ==
    \E i \in 1 .. Len(runs) :
        /\ runs[i].iterations = 1
        /\ \E n \in VerboseReach({0}, runs[i].in) :
              /\ runs[i].in[n].triCount = 0
              /\ {runs[i].out[n].left, runs[i].out[n].right} # {runs[i].in[n].left, runs[i].in[n].right}

\* C26: after any builder over N primitives every primitive index in [0, N)
\* stands in the index range of a leaf that a traversal reaches from the
\* root, also where a split was given up because one side came out empty
PrimitiveCoverage ==
    Built =>
        \A prim \in 0 .. bvh.triCount - 1 :
            \E n \in Reachable :
                /\ isLeaf(Nodes[n])
                /\ \E p \in NodePos(Nodes[n]) : heap.buf[bvh.triIdx][p] = prim

\* BuildQuick has given up a split: it stops nowhere else, and a leaf holds
\* more than one primitive
SplitAbandoned ==
    /\ op = "BuildQuick"
    /\ \E n \in Reachable : isLeaf(Nodes[n]) /\ Nodes[n].triCount >= 2

(***************************************************************************)
(* Optimize on trees of every size: the scenes of one to three triangles   *)
(* and the deep ones.                                                      *)
(***************************************************************************)
HaltNext == Build \/ BuildQuick \/ ConvertVerbose \/ OptimizeVerbose
HaltInit == Start(ConvertScenes \cup DeepScenes)
HaltSpec == HaltInit /\ [][HaltNext]_vars

\* C27: every call of Optimize returns: in each iteration the loop that
\* draws a node finds one it accepts, whatever the size of the tree
OptimizeReturns ==
    /\ op \notin {"division by zero", "wild read", "no return"}
    /\ \A i \in 1 .. Len(runs) : runs[i].returned

(***************************************************************************)
(* BVH_Verbose::SplitLeafs and BVH_Verbose::Compact, and the parent links  *)
(* of the verbose tree.                                                    *)
(***************************************************************************)
\* BVH_Verbose::SplitLeafs( maxPrims ) on the node array v: the nodes, the
\* count of nodes in use, and whether a node was written past the pool (oob)
SplitLeafs(v0, usedNodes0, maxPrims, triIdx, fragment, flipped) ==
    LET Stored(f) == IF flipped THEN VNeg(f.bmin) ELSE f.bmin
        HalfMin(first, count) ==
            LET m(a) == SetMin({Stored(fragment[triIdx[p]])[a] : p \in first .. first + count - 1} \cup {BVH_FAR})
            IN  <<m(1), m(2), m(3)>>
        HalfMax(first, count) ==
            LET m(a) == SetMax({fragment[triIdx[p]].bmax[a] : p \in first .. first + count - 1} \cup {-BVH_FAR})
            IN  <<m(1), m(2), m(3)>>
        NewLeaf(first, count, nodeIdx) ==
            [aabbMin |-> HalfMin(first, count), aabbMax |-> HalfMax(first, count), left |-> 0, right |-> 0,
             triCount |-> count, firstTri |-> first, parent |-> nodeIdx]
        Split(v, nodeIdx, used) ==
            [v EXCEPT ![used] = NewLeaf(v[nodeIdx].firstTri, v[nodeIdx].triCount \div 2, nodeIdx),
                      ![used + 1] = NewLeaf(v[nodeIdx].firstTri + v[nodeIdx].triCount \div 2,
                                            v[nodeIdx].triCount - v[nodeIdx].triCount \div 2, nodeIdx),
                      ![nodeIdx].left = used, ![nodeIdx].right = used + 1, ![nodeIdx].triCount = 0]
        RECURSIVE Walk(_, _, _, _)
        Pop(v, used, stack) ==
            IF stack = <<>> THEN [nodes |-> v, usedNodes |-> used, oob |-> FALSE]
            ELSE Walk(v, used, Top(stack), Popped(stack))
        Walk(v, used, nodeIdx, stack) ==
            IF v[nodeIdx].triCount = 0 THEN Walk(v, used, v[nodeIdx].left, Append(stack, v[nodeIdx].right))
            ELSE IF v[nodeIdx].triCount <= maxPrims THEN Pop(v, used, stack)
            ELSE IF used + 1 \notin DOMAIN v THEN [nodes |-> v, usedNodes |-> used + 2, oob |-> TRUE]
            ELSE Pop(Split(v, nodeIdx, used), used + 2,
                     stack \o (IF v[nodeIdx].triCount \div 2 > 1 THEN <<used>> ELSE <<>>)
                           \o (IF v[nodeIdx].triCount - v[nodeIdx].triCount \div 2 > 1 THEN <<used + 1>> ELSE <<>>))
    IN  Walk(v0, usedNodes0, 0, <<>>)

\* BVH_Verbose::Compact past its fatal check, on the node array src: the new
\* pool of usedNodes nodes, the count of nodes in use, and whether a node was
\* written past the pool (oob)
VerboseCompact(src, usedNodes) ==
    LET RECURSIVE Walk(_, _, _, _)
        Walk(tmp, newNodePtr, nodeIdx, stack) ==
            LET left == src[tmp[nodeIdx].left]
                right == src[tmp[nodeIdx].right]
                todo == stack \o (IF left.triCount > 0 THEN <<>> ELSE <<newNodePtr>>)
                              \o (IF right.triCount > 0 THEN <<>> ELSE <<newNodePtr + 1>>)
                copied == [tmp EXCEPT ![newNodePtr] = left, ![newNodePtr + 1] = right,
                                      ![nodeIdx].left = newNodePtr, ![nodeIdx].right = newNodePtr + 1]
            IN  IF newNodePtr + 1 >= usedNodes
                THEN [oob |-> TRUE, tmp |-> copied, newNodePtr |-> newNodePtr + 2]
                ELSE IF todo = <<>> THEN [oob |-> FALSE, tmp |-> copied, newNodePtr |-> newNodePtr + 2]
                ELSE Walk(copied, newNodePtr + 2, todo[Len(todo)], SubSeq(todo, 1, Len(todo) - 1))
    IN  Walk([i \in 0 .. usedNodes - 1 |-> IF i < 2 THEN src[i] ELSE "uninit"], 2, 0, <<>>)

\* the caller splits the leaves of the verbose tree
SplitLeafsVerbose ==
    /\ Built /\ verbose # NewBVH_Verbose
    /\ \E maxPrims \in {1, 2} :
          \E r \in {SplitLeafs(heap.buf[verbose.bvhNode], verbose.usedNodes, maxPrims, heap.buf[verbose.triIdx],
                               heap.buf[verbose.fragment], verbose.frag_min_flipped)} :
              /\ heap' = [heap EXCEPT !.buf[verbose.bvhNode] = r.nodes]
              /\ verbose' = [verbose EXCEPT !.usedNodes = r.usedNodes]
              /\ op' = IF r.oob THEN "overflow" ELSE op
    /\ UNCHANGED <<bvh, old, refs, moved, bvh4, bvh4_cpu, ray, packet, copy, call, gone, bvh8, cwbvh, seed, runs, nextFrag, slices>>

\* the caller compacts the verbose tree, as the last thing it does to it
CompactVerbose ==
    /\ Built /\ verbose # NewBVH_Verbose
    /\ \E r \in {VerboseCompact(heap.buf[verbose.bvhNode], verbose.usedNodes)} :
          /\ heap' = AlignedFree(AllocArray(heap, "verbose", r.tmp), "verbose", verbose.bvhNode)
          /\ verbose' = [verbose EXCEPT !.usedNodes = r.newNodePtr, !.bvhNode = Len(heap.buf) + 1]
          /\ op' = IF r.oob THEN "overflow" ELSE "Compact"
    /\ UNCHANGED <<bvh, old, refs, moved, bvh4, bvh4_cpu, ray, packet, copy, call, gone, bvh8, cwbvh, seed, runs, nextFrag, slices>>

ParentNext ==
    \/ Build \/ BuildQuick \/ ConvertVerbose \/ SplitLeafsVerbose \/ OptimizeVerbose \/ CompactVerbose
ParentInit == Start(ConvertScenes \cup DeepScenes)
ParentSpec == ParentInit /\ [][ParentNext]_vars

\* C28: in the verbose tree the root has the parent 0xffffffff, and both
\* children of every interior node reached from the root name that node as
\* their parent
ParentLinksConsistent ==
    (verbose # NewBVH_Verbose /\ op \notin {"overflow", "division by zero", "wild read"}) =>
        /\ heap.buf[verbose.bvhNode][0].parent = -1
        /\ \A n \in VerboseReach({0}, heap.buf[verbose.bvhNode]) :
              heap.buf[verbose.bvhNode][n].triCount = 0 =>
                  /\ heap.buf[verbose.bvhNode][heap.buf[verbose.bvhNode][n].left].parent = n
                  /\ heap.buf[verbose.bvhNode][heap.buf[verbose.bvhNode][n].right].parent = n

(***************************************************************************)
(* The capacity of the destination of a conversion.                        *)
(***************************************************************************)
\* copy.ConvertFrom( verbose ) into a BVH that is fresh or was built before:
\* when the pool is too small it is replaced by one of 2 * triCount nodes,
\* and the memset of spaceNeeded nodes that follows is "overflow" when it
\* runs past that pool
ConvertInto ==
    /\ verbose # NewBVH_Verbose /\ copy.triIdx # verbose.triIdx /\ op # "overflow"
    /\ IF ConvertFits(copy, verbose)
       THEN /\ \E r \in {BVHConvertFrom(copy, heap, "copy", verbose)} : copy' = r.t /\ heap' = r.h
            /\ op' = op
       ELSE /\ heap' = AlignedAlloc(AlignedFree(heap, "copy", copy.bvhNode), "copy", copy.triCount * 2, UninitNode)
            /\ copy' = [copy EXCEPT !.bvhNode = Len(heap.buf) + 1, !.allocatedNodes = verbose.usedNodes]
            /\ op' = "overflow"
    /\ UNCHANGED <<bvh, old, refs, moved, bvh4, bvh4_cpu, ray, packet, verbose, call, gone, bvh8, cwbvh, seed, runs, nextFrag, slices>>

CapacityNext ==
    \/ Build \/ BuildQuick \/ BuildCopy
    \/ ConvertVerbose \/ ConvertInto \/ ConvertBVH4 \/ ConvertBVH8
CapacityInit == Start(ConvertScenes)
CapacitySpec == CapacityInit /\ [][CapacityNext]_vars

\* C29: no conversion writes outside the buffer of its destination: the node
\* pool of every destination holds the nodes the conversion zeroes
\* (allocatedNodes) and the nodes it writes (usedNodes)
ConversionsFitDestination ==
    /\ op # "overflow"
    /\ copy.bvhNode # 0 =>
          /\ copy.allocatedNodes <= Cardinality(DOMAIN heap.buf[copy.bvhNode])
          /\ copy.usedNodes <= Cardinality(DOMAIN heap.buf[copy.bvhNode])
    /\ verbose # NewBVH_Verbose =>
          /\ verbose.allocatedNodes <= Cardinality(DOMAIN heap.buf[verbose.bvhNode])
          /\ verbose.usedNodes <= Cardinality(DOMAIN heap.buf[verbose.bvhNode])
    /\ bvh4 # NewBVH4 => bvh4.usedNodes <= Cardinality(DOMAIN heap.buf[bvh4.bvh4Node])
    /\ bvh8 # NewBVH8 => bvh8.usedNodes <= Cardinality(DOMAIN heap.buf[bvh8.bvh8Node])

(***************************************************************************)
(* Memory of the caller: the vertex array, and the boxes handed to         *)
(* BuildTLAS.                                                              *)
(***************************************************************************)
\* the tree of the caller goes out of scope after its last build
DestroyTree ==
    /\ Built \/ op = "BuildTLAS( aabbs )"
    /\ "bvh" \notin gone
    /\ heap' = DestroyBVH(bvh, heap, "bvh")
    /\ gone' = gone \cup {"bvh"}
    /\ op' = "~BVH"
    /\ UNCHANGED <<bvh, old, refs, moved, bvh4, bvh4_cpu, ray, packet, verbose, copy, call, bvh8, cwbvh, seed, runs, nextFrag, slices>>

OwnNext == Build \/ BuildQuick \/ BuildTLASAabbs \/ DestroyTree
OwnSpec == RebuildInit /\ [][OwnNext]_vars

\* C30: the library releases no array the caller allocated, and reads no
\* array of the caller that has been released
FreesOnlyOwnMemory ==
    /\ op # "use after free"
    /\ \A i \in 1 .. Len(heap.frees) : heap.by[heap.frees[i].ptr] # "caller"
====
